---- MODULE Spec2Model ----
(***************************************************************************)
(* A model of the tabletop text-adventure engine: the command parser       *)
(* (CommandParser.js), the mutable game state (GameState.js), the rule     *)
(* engine (GameRules.js) and the session pipeline executeCommand /         *)
(* checkGameCompletion (main.js, carried in the same file as GameState).   *)
(*                                                                         *)
(* JavaScript strings are modelled as sequences of one-character strings,  *)
(* so that toLowerCase, trim, split, join and String.includes are computed *)
(* and not assumed.  JavaScript objects are sequences of <<key, value>>    *)
(* pairs in insertion order; a Map is the same; a Set is a sequence        *)
(* without repetitions in insertion order.                                 *)
(***************************************************************************)
EXTENDS Integers, Sequences, FiniteSets, TLC

VARIABLES
    content,                 \* game.content: rooms, items, characters, config
    currentRoomId,           \* GameState.currentRoomId
    inventory,               \* GameState.inventory
    flags,                   \* GameState.flags
    visitedRooms,            \* GameState.visitedRooms
    itemLocations,           \* GameState.itemLocations
    characterDialogueState,  \* GameState.characterDialogueState
    commandHistory,          \* GameState.commandHistory
    historyIndex,            \* GameState.historyIndex
    tempInput,               \* GameState.tempInput
    phase,                   \* "boot" until initializeGame has run its first look
    lastInput,               \* the text handed to the last command
    narration,               \* the lines the last command sent to the renderer
    threw,                   \* the last command ended in an uncaught TypeError
    victories,               \* number of victory narrations emitted so far
    consumed,                \* items a consuming use-action has been executed for
    justConsumed,            \* those among them the last command consumed
    trip,                    \* the last look / go / go back / look sequence
    inputValue,              \* the text in the command input field
    pressed,                 \* the direction of the navigateHistory call of the last step, 0 if none
    restored                 \* the GameState restored from a save of the current one

vars == <<content, currentRoomId, inventory, flags, visitedRooms, itemLocations,
          characterDialogueState, commandHistory, historyIndex, tempInput,
          phase, lastInput, narration, threw, victories, consumed, justConsumed, trip,
          inputValue, pressed, restored>>

----------------------------------------------------------------------------
(* JavaScript values *)

\* Values that are not strings.  Each is a one-element sequence holding a
\* marker that is no character, so it never equals a string.
NULL == <<"<null>">>
UNDEFINED == <<"<undefined>">>
FN_OBJECT == <<"<function Object>">>
OBJ_PROTO == <<"<Object.prototype>">>

IsString(v) == v \notin {NULL, UNDEFINED, FN_OBJECT, OBJ_PROTO}

\* if (v): null, undefined and '' are falsy; functions, objects and
\* non-empty strings are truthy.
Truthy(v) == v \notin {NULL, UNDEFINED, <<>>}

\* A string literal as the sequence of its characters
S(s) == [i \in 1..Len(s) |-> SubSeq(s, i, i)]

Upper == <<"A","B","C","D","E","F","G","H","I","J","K","L","M",
           "N","O","P","Q","R","S","T","U","V","W","X","Y","Z">>
Lower == <<"a","b","c","d","e","f","g","h","i","j","k","l","m",
           "n","o","p","q","r","s","t","u","v","w","x","y","z">>

\* String.prototype.toLowerCase
toLowerCase(s) ==
    [i \in DOMAIN s |->
        IF \E k \in DOMAIN Upper : Upper[k] = s[i]
        THEN Lower[CHOOSE k \in DOMAIN Upper : Upper[k] = s[i]]
        ELSE s[i]]

IsSpace(c) == c \in {" ", "\t"}

RECURSIVE TrimLeft(_)
TrimLeft(s) == IF s # <<>> /\ IsSpace(Head(s)) THEN TrimLeft(Tail(s)) ELSE s

RECURSIVE TrimRight(_)
TrimRight(s) ==
    IF s # <<>> /\ IsSpace(s[Len(s)]) THEN TrimRight(SubSeq(s, 1, Len(s) - 1)) ELSE s

\* String.prototype.trim
trim(s) == TrimRight(TrimLeft(s))

\* s.replace(/\s+/g, ' ')
RECURSIVE CollapseSpaces(_)
CollapseSpaces(s) ==
    IF s = <<>> THEN <<>>
    ELSE IF IsSpace(Head(s))
         THEN <<" ">> \o CollapseSpaces(TrimLeft(s))
         ELSE <<Head(s)>> \o CollapseSpaces(Tail(s))

\* s.split(' ')
RECURSIVE SplitOnSpace(_, _)
SplitOnSpace(s, cur) ==
    IF s = <<>> THEN <<cur>>
    ELSE IF Head(s) = " " THEN <<cur>> \o SplitOnSpace(Tail(s), <<>>)
         ELSE SplitOnSpace(Tail(s), Append(cur, Head(s)))

\* Array.prototype.join
RECURSIVE join(_, _)
join(parts, sep) ==
    IF parts = <<>> THEN <<>>
    ELSE IF Len(parts) = 1 THEN parts[1]
         ELSE parts[1] \o sep \o join(Tail(parts), sep)

\* String.prototype.includes
includes(s, t) ==
    \E i \in 0..(Len(s) - Len(t)) : SubSeq(s, i + 1, i + Len(t)) = t

\* const v = ...; followed by the statements that use v
Let(v, In(_)) == In(v)

\* a || b
Or(a, b) == IF Truthy(a) THEN a ELSE b

\* Array.prototype.filter
filter(xs, Keep(_)) == SelectSeq(xs, Keep)

InSeq(x, xs) == \E i \in DOMAIN xs : xs[i] = x

\* index of the first element satisfying P, 0 when none (Array.prototype.find)
FirstIndex(xs, P(_)) ==
    IF \E i \in DOMAIN xs : P(xs[i])
    THEN CHOOSE i \in DOMAIN xs : P(xs[i]) /\ \A j \in 1..(i - 1) : ~P(xs[j])
    ELSE 0

\* Own property of an object (a sequence of <<key, value>> pairs).
HasOwn(obj, key) == \E i \in DOMAIN obj : obj[i][1] = key
OwnGet(obj, key) == obj[CHOOSE i \in DOMAIN obj : obj[i][1] = key][2]
Keys(obj) == [i \in DOMAIN obj |-> obj[i][1]]

\* obj[key] on an object literal or a JSON.parse result: own properties, then
\* Object.prototype.  Keys reaching these lookups are lower-cased words, and
\* the only all-lower-case names Object.prototype carries are "constructor"
\* (the Object function) and "__proto__" (Object.prototype itself).
PlainGet(obj, key) ==
    IF HasOwn(obj, key) THEN OwnGet(obj, key)
    ELSE IF key = S("constructor") THEN FN_OBJECT
    ELSE IF key = S("__proto__") THEN OBJ_PROTO
    ELSE UNDEFINED

----------------------------------------------------------------------------
(* Content: the tables the loader hands to the engine.  Two disconnected   *)
(* groups of rooms, one per starting room: a ship section whose exits are  *)
(* locked in the three ways a lock can be declared, and a lounge whose     *)
(* characters cover the shapes of a dialogue tree.  An optional field that *)
(* is absent in the JSON is UNDEFINED here.                                *)

NoEvent == [message |-> UNDEFINED, setFlag |-> UNDEFINED, giveItem |-> UNDEFINED]

Lock(item, flag, message) ==
    [requiresItem |-> item, requiresFlag |-> flag, message |-> message]

UseAction(target, message, setFlag, giveItem, consume) ==
    [target |-> target, message |-> message, setFlag |-> setFlag,
     giveItem |-> giveItem, consume |-> consume]

Node(id, text, setFlag, giveItem, nextNode, loop) ==
    [id |-> id, text |-> text, setFlag |-> setFlag, giveItem |-> giveItem,
     nextNode |-> nextNode, loop |-> loop]

\* content.rooms (rooms.json)
Rooms ==
  << [id |-> S("bridge"), name |-> S("Bridge"), description |-> S("The command centre."),
      exits |-> << <<S("east"), S("corridor")>>, <<S("up"), S("vault")>> >>,
      lockedExits |-> << <<S("up"), Lock(S("keycard"), S("powerOn"), S("The lift needs a keycard and power."))>> >>,
      items |-> <<S("keycard"), S("console")>>,
      characters |-> <<>>,
      hasFeatures |-> TRUE,
      features |-> << <<S("viewscreen"), S("Stars drift by.")>> >>],
     [id |-> S("corridor"), name |-> S("Corridor"), description |-> S("A narrow corridor."),
      exits |-> << <<S("west"), S("bridge")>>, <<S("north"), S("vault")>> >>,
      lockedExits |-> << <<S("north"), Lock(S("keycard"), UNDEFINED, UNDEFINED)>> >>,
      items |-> <<S("medkit")>>,
      characters |-> <<>>,
      hasFeatures |-> FALSE,
      features |-> <<>>],
     [id |-> S("vault"), name |-> S("Vault"), description |-> S("The vault."),
      exits |-> << <<S("south"), S("corridor")>>, <<S("down"), S("bridge")>> >>,
      lockedExits |-> << <<S("down"), Lock(UNDEFINED, S("powerOn"), UNDEFINED)>> >>,
      items |-> <<>>,
      characters |-> <<>>,
      hasFeatures |-> FALSE,
      features |-> <<>>],
     [id |-> S("lounge"), name |-> S("Lounge"), description |-> S("A quiet lounge."),
      exits |-> << <<S("south"), S("galley")>> >>,
      lockedExits |-> <<>>,
      items |-> <<>>,
      characters |-> <<S("guinan"), S("worf")>>,
      hasFeatures |-> FALSE,
      features |-> <<>>],
     [id |-> S("galley"), name |-> S("Galley"), description |-> S("The galley."),
      exits |-> << <<S("north"), S("lounge")>> >>,
      lockedExits |-> <<>>,
      items |-> <<>>,
      characters |-> <<S("data"), S("troi")>>,
      hasFeatures |-> FALSE,
      features |-> <<>>] >>

\* content.items (items.json)
Items ==
  << [id |-> S("keycard"), name |-> S("Access Keycard"), description |-> S("A plastic card."),
      aliases |-> <<S("card")>>, takeable |-> TRUE, takeFailMessage |-> UNDEFINED,
      visible |-> TRUE, onTake |-> [NoEvent EXCEPT !.message = S("It is still warm.")], useFailMessage |-> UNDEFINED,
      stateDescriptions |-> <<>>,
      useActions |->
        << UseAction(S("console"), S("The console hums and dispenses a medkit."), S("powerOn"), S("medkit"), FALSE),
           UseAction(UNDEFINED, S("You wave the keycard."), UNDEFINED, UNDEFINED, FALSE),
           UseAction(UNDEFINED, S("You flip the keycard."), S("flipped"), UNDEFINED, FALSE) >>],
     [id |-> S("console"), name |-> S("Console"), description |-> S("A wall console."),
      aliases |-> <<>>, takeable |-> FALSE, takeFailMessage |-> S("The console is bolted down."),
      visible |-> TRUE, onTake |-> NoEvent, useFailMessage |-> UNDEFINED,
      stateDescriptions |-> << <<S("powerOn"), S("Its screen glows.")>>,
                             <<S("healed"), S("A green light is on.")>> >>,
      useActions |-> <<>>],
     [id |-> S("medkit"), name |-> S("Medkit"), description |-> S("A field medkit."),
      aliases |-> <<>>, takeable |-> TRUE, takeFailMessage |-> UNDEFINED,
      visible |-> TRUE, onTake |-> [NoEvent EXCEPT !.setFlag = S("foundMedkit"), !.giveItem = S("token")], useFailMessage |-> UNDEFINED,
      stateDescriptions |-> <<>>,
      useActions |->
        << UseAction(UNDEFINED, S("You feel better."), S("healed"), UNDEFINED, TRUE) >>],
     [id |-> S("token"), name |-> S("Card"), description |-> S("A brass card."),
      aliases |-> <<>>, takeable |-> TRUE, takeFailMessage |-> UNDEFINED,
      visible |-> TRUE, onTake |-> NoEvent, useFailMessage |-> UNDEFINED,
      stateDescriptions |-> <<>>,
      useActions |->
        << UseAction(S("Guinan"), S("Guinan nods."), UNDEFINED, UNDEFINED, FALSE),
           UseAction(S("guinan"), S("Guinan shrugs."), UNDEFINED, UNDEFINED, FALSE) >>] >>

\* content.characters (characters.json)
Characters ==
  << [id |-> S("guinan"), name |-> S("Guinan"), description |-> S("The bartender."),
      aliases |-> <<>>, defaultGreeting |-> UNDEFINED,
      dialogue |->
        << Node(S("hello"), S("Welcome."), UNDEFINED, UNDEFINED, S("tale"), UNDEFINED),
           Node(S("tale"), S("Take this token."), S("heardTale"), S("token"), S("idle"), UNDEFINED),
           Node(S("idle"), S("Enjoy your drink."), UNDEFINED, UNDEFINED, UNDEFINED, S("idle")) >>],
     [id |-> S("data"), name |-> S("Data"), description |-> S("An android."),
      aliases |-> <<>>, defaultGreeting |-> UNDEFINED,
      dialogue |->
        << Node(S("intro"), S("Greetings."), S("metData"), UNDEFINED, S("more"), UNDEFINED),
           Node(S("more"), S("I have no further data."), S("briefed"), UNDEFINED, S("gone"), UNDEFINED) >>],
     [id |-> S("troi"), name |-> S("Troi"), description |-> S("The counselor."),
      aliases |-> <<>>, defaultGreeting |-> UNDEFINED,
      dialogue |->
        << Node(S("calm"), S("Be calm."), UNDEFINED, UNDEFINED, UNDEFINED, UNDEFINED) >>],
     [id |-> S("worf"), name |-> S("Worf"), description |-> S("A Klingon."),
      aliases |-> <<>>, defaultGreeting |-> S("Worf grunts."),
      dialogue |-> <<>>] >>

\* content.commands.synonyms (commands.json), as the README gives it
verbSynonyms == << <<S("get"), S("take")>>, <<S("grab"), S("take")>> >>

\* content.commands.directions (commands.json), as the README gives it
directionSynonyms == << <<S("n"), S("north")>>, <<S("s"), S("south")>> >>

\* content.config (config.json): the starting room and the objectives.
\* hasObjectives is FALSE when config.json carries no "objectives" array.
Config(startingRoom, hasObjectives, objectives) ==
    [startingRoom |-> startingRoom, hasObjectives |-> hasObjectives,
     objectives |-> objectives, victoryText |-> S("You win.")]

Configs ==
    { Config(S("bridge"), TRUE, <<S("healed"), S("powerOn")>>),
      Config(S("lounge"), TRUE, <<S("heardTale")>>) }

\* content as loadAllContent returns it
Content(cfg) ==
    [rooms |-> Rooms, items |-> Items, characters |-> Characters, config |-> cfg]

\* roomsById.get / itemsById.get / charactersById.get: the index of the entry
\* in its table, 0 when the Map has no such key.
RoomIndex(id) == FirstIndex(content.rooms, LAMBDA r : r.id = id)
ItemIndex(id) == FirstIndex(content.items, LAMBDA it : it.id = id)
CharacterIndex(id) == FirstIndex(content.characters, LAMBDA c : c.id = id)

----------------------------------------------------------------------------
(* CommandParser *)

prepositions == <<S("on"), S("with"), S("to"), S("in"), S("at"), S("from"), S("into")>>
articles == <<S("the"), S("a"), S("an")>>

\* normalizeInput: lower-case, trim, collapse runs of whitespace
normalizeInput(input) == CollapseSpaces(trim(toLowerCase(input)))

\* tokenize: split on single spaces and drop empty tokens
tokenize(input) == filter(SplitOnSpace(input, <<>>), LAMBDA t : Len(t) > 0)

\* removeArticles that drops the definite article only
removeArticlesDefinite(tokens) == filter(tokens, LAMBDA t : t # S("the"))

removeArticles(tokens) == filter(tokens, LAMBDA t : ~InSeq(t, articles))

\* this.verbSynonyms[verb] || verb
resolveVerbSynonym(verb) == Or(PlainGet(verbSynonyms, verb), verb)

\* CommandParser.resolveDirection: this.directionSynonyms[d] || d
resolveDirection(direction) ==
    Or(PlainGet(directionSynonyms, toLowerCase(direction)), toLowerCase(direction))

\* findPrepositionIndex returning the last preposition
findPrepositionIndexLast(tokens) ==
    IF \A i \in DOMAIN tokens : ~InSeq(tokens[i], prepositions) THEN 0
    ELSE CHOOSE i \in DOMAIN tokens :
             /\ InSeq(tokens[i], prepositions)
             /\ \A j \in DOMAIN tokens : j > i => ~InSeq(tokens[j], prepositions)

findPrepositionIndex(tokens) ==
    FirstIndex(tokens, LAMBDA t : InSeq(t, prepositions))

parseNounPhrase(tokens, verb) ==
    IF Len(tokens) = 0
    THEN [noun |-> NULL, preposition |-> NULL, target |-> NULL]
    ELSE IF verb \in {S("go"), S("walk"), S("move")}
    THEN [noun |-> resolveDirection(tokens[1]), preposition |-> NULL, target |-> NULL]
    ELSE Let(findPrepositionIndex(tokens), LAMBDA prepIndex :
         IF prepIndex = 0
         THEN [noun |-> join(tokens, S(" ")), preposition |-> NULL, target |-> NULL]
         ELSE [noun |-> IF prepIndex > 1
                        THEN join(SubSeq(tokens, 1, prepIndex - 1), S(" ")) ELSE NULL,
               preposition |-> tokens[prepIndex],
               target |-> IF prepIndex < Len(tokens)
                          THEN join(SubSeq(tokens, prepIndex + 1, Len(tokens)), S(" "))
                          ELSE NULL])

createEmptyCommand(raw) ==
    [verb |-> <<>>, noun |-> NULL, preposition |-> NULL, target |-> NULL,
     raw |-> raw, tokens |-> <<>>]

\* parse, from the tokens left after the articles are removed
parseTokens(input, cleanTokens) ==
    IF Len(cleanTokens) = 0 THEN createEmptyCommand(input)
    ELSE Let(resolveVerbSynonym(cleanTokens[1]), LAMBDA verb :
         Let(parseNounPhrase(Tail(cleanTokens), verb), LAMBDA np :
             [verb |-> verb, noun |-> np.noun,
              preposition |-> np.preposition, target |-> np.target,
              raw |-> input, tokens |-> cleanTokens]))

parse(input) ==
    IF input = <<>> THEN createEmptyCommand(input)
    ELSE Let(normalizeInput(input), LAMBDA normalizedInput :
         IF normalizedInput = <<>> THEN createEmptyCommand(input)
         ELSE parseTokens(input, removeArticles(tokenize(normalizedInput))))

----------------------------------------------------------------------------
(* GameState: the operations on the mutable state, as functions of a state *)
(* record w = [currentRoomId, inventory, flags, visitedRooms,              *)
(* itemLocations, characterDialogueState].                                 *)

JS_TRUE == <<"<true>">>

\* Map.prototype.set, and obj[key] = value: an existing key keeps its place.
MapSet(map, key, value) ==
    IF HasOwn(map, key)
    THEN [i \in DOMAIN map |-> IF map[i][1] = key THEN <<key, value>> ELSE map[i]]
    ELSE Append(map, <<key, value>>)

\* Map.prototype.get
MapGet(map, key) == IF HasOwn(map, key) THEN OwnGet(map, key) ELSE UNDEFINED

setCurrentRoom(w, roomId) == [w EXCEPT !.currentRoomId = roomId]

\* visitedRooms kept as an array: push without the membership test
markRoomVisitedAgain(w, roomId) == [w EXCEPT !.visitedRooms = Append(@, roomId)]

\* visitedRooms.add(roomId)
markRoomVisited(w, roomId) ==
    IF InSeq(roomId, w.visitedRooms) THEN w
    ELSE [w EXCEPT !.visitedRooms = Append(@, roomId)]

hasItem(w, itemId) == InSeq(itemId, w.inventory)

\* addItem that leaves the location record as it is
addItemUntracked(w, itemId) ==
    IF ~InSeq(itemId, w.inventory)
    THEN [w EXCEPT !.inventory = Append(@, itemId)]
    ELSE w

\* addItem that leaves an item that is nowhere where it is
addItemWhilePresent(w, itemId) ==
    IF ~InSeq(itemId, w.inventory) /\ MapGet(w.itemLocations, itemId) # S("nowhere")
    THEN [w EXCEPT !.inventory = Append(@, itemId),
                   !.itemLocations = MapSet(@, itemId, S("inventory"))]
    ELSE w

addItem(w, itemId) ==
    IF ~InSeq(itemId, w.inventory)
    THEN [w EXCEPT !.inventory = Append(@, itemId),
                   !.itemLocations = MapSet(@, itemId, S("inventory"))]
    ELSE w

\* inventory.splice(indexOf(itemId), 1)
removeItem(w, itemId) ==
    Let(FirstIndex(w.inventory, LAMBDA x : x = itemId), LAMBDA index :
        IF index # 0
        THEN [w EXCEPT !.inventory =
                  SubSeq(@, 1, index - 1) \o SubSeq(@, index + 1, Len(@))]
        ELSE w)

\* setItemLocation that deletes the record and inserts it anew
setItemLocationReinserting(w, itemId, location) ==
    [w EXCEPT !.itemLocations =
         Append(filter(@, LAMBDA e : e[1] # itemId), <<itemId, location>>)]

setItemLocation(w, itemId, location) ==
    [w EXCEPT !.itemLocations = MapSet(@, itemId, location)]

\* GameState.getItemsInRoom: the ids located in roomId, in Map order
stateItemsInRoom(w, roomId) ==
    Keys(filter(w.itemLocations, LAMBDA e : e[2] = roomId))

getFlag(w, flagName) == PlainGet(w.flags, flagName)

\* setFlag that clears a flag that is already set
setFlagToggling(w, flagName, value) ==
    [w EXCEPT !.flags = MapSet(@, flagName,
                               IF Truthy(PlainGet(@, flagName)) THEN NULL ELSE value)]

setFlag(w, flagName, value) == [w EXCEPT !.flags = MapSet(@, flagName, value)]

getDialogueState(w, characterId) == MapGet(w.characterDialogueState, characterId)

setDialogueState(w, characterId, nodeId) ==
    [w EXCEPT !.characterDialogueState = MapSet(@, characterId, nodeId)]

\* initializeItemLocations: every room's items, room by room
RECURSIVE PlaceItems(_, _, _)
PlaceItems(map, roomId, itemIds) ==
    IF itemIds = <<>> THEN map
    ELSE PlaceItems(MapSet(map, Head(itemIds), roomId), roomId, Tail(itemIds))

RECURSIVE initializeItemLocations(_, _)
initializeItemLocations(map, rooms) ==
    IF rooms = <<>> THEN map
    ELSE initializeItemLocations(
             PlaceItems(map, Head(rooms).id, Head(rooms).items), Tail(rooms))

\* new GameState(content.config), then the GameRules constructor
NewGameState(c) ==
    [currentRoomId |-> c.config.startingRoom,
     inventory |-> <<>>,
     flags |-> <<>>,
     visitedRooms |-> <<>>,
     itemLocations |-> initializeItemLocations(<<>>, c.rooms),
     characterDialogueState |-> <<>>]

----------------------------------------------------------------------------
(* Serialization (GameState.toJSON, GameState.fromJSON) *)

DecimalDigits == <<"0", "1", "2", "3", "4", "5", "6", "7", "8", "9">>

DigitOf(ch) == FirstIndex(DecimalDigits, LAMBDA d : d = ch) - 1

\* digits a, b of equal length: a is the smaller number
DigitsLess(a, b) ==
    \E i \in DOMAIN a :
        /\ DigitOf(a[i]) < DigitOf(b[i])
        /\ \A j \in 1..(i - 1) : a[j] = b[j]

\* the canonical decimal numbers, compared by value
NumberLess(a, b) == Len(a) < Len(b) \/ (Len(a) = Len(b) /\ DigitsLess(a, b))

\* a property key that is an array index: the canonical decimal form of an
\* integer from 0 to 2^32 - 2
IsArrayIndex(key) ==
    /\ IsString(key) /\ Len(key) > 0
    /\ \A i \in DOMAIN key : DigitOf(key[i]) >= 0
    /\ Len(key) > 1 => key[1] # "0"
    /\ ~NumberLess(S("4294967294"), key)

\* the entries whose keys are array indices, in ascending order of the index
RECURSIVE Ascending(_)
Ascending(entries) ==
    IF entries = <<>> THEN <<>>
    ELSE Let(CHOOSE i \in DOMAIN entries :
                 \A j \in DOMAIN entries : ~NumberLess(entries[j][1], entries[i][1]),
             LAMBDA least :
                 <<entries[least]>> \o
                 Ascending(filter(entries, LAMBDA e : e[1] # entries[least][1])))

\* Object.fromEntries(map), { ...object }: the own properties of the new
\* object in the order of its keys, array indices first in ascending order,
\* then the other strings in the order of their creation
ObjectFromEntries(entries) ==
    Ascending(filter(entries, LAMBDA e : IsArrayIndex(e[1]))) \o
    filter(entries, LAMBDA e : ~IsArrayIndex(e[1]))

\* new Map(Object.entries(object)): the entries in the order of the keys
MapOfObject(object) == ObjectFromEntries(object)

\* new Set(array): the values in the order of their first occurrence
RECURSIVE SetOfArray(_)
SetOfArray(array) ==
    IF array = <<>> THEN <<>>
    ELSE Let(SetOfArray(SubSeq(array, 1, Len(array) - 1)), LAMBDA front :
             IF InSeq(array[Len(array)], front) THEN front
             ELSE Append(front, array[Len(array)]))

\* no GameState has been restored
NoSave == <<>>

toJSON(w) ==
    [currentRoomId |-> w.currentRoomId,
     inventory |-> w.inventory,
     flags |-> ObjectFromEntries(w.flags),
     visitedRooms |-> w.visitedRooms,
     itemLocations |-> ObjectFromEntries(w.itemLocations),
     characterDialogueState |-> ObjectFromEntries(w.characterDialogueState)]

fromJSON(w, data) ==
    [w EXCEPT !.currentRoomId = data.currentRoomId,
              !.inventory = data.inventory,
              !.flags = ObjectFromEntries(data.flags),
              !.visitedRooms = SetOfArray(data.visitedRooms),
              !.itemLocations = MapOfObject(data.itemLocations),
              !.characterDialogueState = MapOfObject(data.characterDialogueState)]

----------------------------------------------------------------------------
(* GameRules.  Every handler maps a state record and a parsed command to   *)
(* a result [w, out, threw, consumed]: the state afterwards, the lines     *)
(* sent to the renderer in order, whether the call ended in an uncaught    *)
(* TypeError, and the items a consuming use-action was executed for.       *)

\* One renderer call: the display method's kind, the template of the text
\* as the source writes it, and the values substituted into it.
Line(kind, text, args) == [kind |-> kind, text |-> text, args |-> args]

Result(w, out) == [w |-> w, out |-> out, threw |-> FALSE, consumed |-> {}]
Throw(w, out) == [w |-> w, out |-> out, threw |-> TRUE, consumed |-> {}]

\* lines already sent, followed by a result
After(out, r) == [r EXCEPT !.out = out \o @]

commandHandlers ==
  << <<S("look"), <<"handleLook">>>>, <<S("l"), <<"handleLook">>>>,
     <<S("go"), <<"handleGo">>>>, <<S("walk"), <<"handleGo">>>>,
     <<S("move"), <<"handleGo">>>>,
     <<S("examine"), <<"handleExamine">>>>, <<S("x"), <<"handleExamine">>>>,
     <<S("inspect"), <<"handleExamine">>>>,
     <<S("take"), <<"handleTake">>>>, <<S("get"), <<"handleTake">>>>,
     <<S("grab"), <<"handleTake">>>>, <<S("pickup"), <<"handleTake">>>>,
     <<S("drop"), <<"handleDrop">>>>, <<S("put"), <<"handleDrop">>>>,
     <<S("discard"), <<"handleDrop">>>>,
     <<S("inventory"), <<"handleInventory">>>>, <<S("i"), <<"handleInventory">>>>,
     <<S("inv"), <<"handleInventory">>>>,
     <<S("talk"), <<"handleTalk">>>>, <<S("speak"), <<"handleTalk">>>>,
     <<S("chat"), <<"handleTalk">>>>,
     <<S("use"), <<"handleUse">>>>, <<S("activate"), <<"handleUse">>>>,
     <<S("help"), <<"handleHelp">>>>, <<S("?"), <<"handleHelp">>>>,
     <<S("quit"), <<"handleQuit">>>>, <<S("exit"), <<"handleQuit">>>> >>

validDirections ==
  << S("north"), S("south"), S("east"), S("west"), S("n"), S("s"), S("e"), S("w"),
     S("northeast"), S("northwest"), S("southeast"), S("southwest"),
     S("ne"), S("nw"), S("se"), S("sw"), S("up"), S("down"), S("u"), S("d") >>

\* isDirection knowing the full direction words only
isDirectionFullWords(word) == InSeq(toLowerCase(word), SubSeq(validDirections, 1, 4))

\* GameRules.isDirection, on a string
isDirection(word) == InSeq(toLowerCase(word), validDirections)

directionMap ==
  << <<S("n"), S("north")>>, <<S("s"), S("south")>>, <<S("e"), S("east")>>,
     <<S("w"), S("west")>>, <<S("ne"), S("northeast")>>, <<S("nw"), S("northwest")>>,
     <<S("se"), S("southeast")>>, <<S("sw"), S("southwest")>>,
     <<S("u"), S("up")>>, <<S("d"), S("down")>> >>

\* GameRules.resolveDirectionSynonym: directionMap[direction] || direction
resolveDirectionSynonym(direction) == Or(PlainGet(directionMap, direction), direction)

getCurrentRoom(w) == RoomIndex(w.currentRoomId)

matchesName(entity, searchName) ==
    \/ toLowerCase(entity.name) = searchName
    \/ toLowerCase(entity.id) = searchName
    \/ includes(toLowerCase(entity.name), searchName)
    \/ \E k \in DOMAIN entity.aliases : toLowerCase(entity.aliases[k]) = searchName

\* The find* helpers return the index of the entity in its content table,
\* 0 for null.
findItemInInventory(w, name) ==
    Let(FirstIndex(w.inventory, LAMBDA id :
            \E k \in DOMAIN content.items :
                content.items[k].id = id /\ matchesName(content.items[k], name)),
        LAMBDA hit : IF hit = 0 THEN 0 ELSE ItemIndex(w.inventory[hit]))

\* findItemInRoom looking only at the items the room lists
findItemInRoomListed(w, name) ==
    Let(filter(stateItemsInRoom(w, w.currentRoomId),
               LAMBDA id : \E k \in DOMAIN content.items :
                               content.items[k].id = id /\ content.items[k].visible),
        LAMBDA itemIds :
    Let(FirstIndex(itemIds, LAMBDA id :
            \E k \in DOMAIN content.items :
                content.items[k].id = id /\ matchesName(content.items[k], name)),
        LAMBDA hit : IF hit = 0 THEN 0 ELSE ItemIndex(itemIds[hit])))

findItemInRoom(w, name) ==
    Let(stateItemsInRoom(w, w.currentRoomId), LAMBDA itemIds :
    Let(FirstIndex(itemIds, LAMBDA id :
            \E k \in DOMAIN content.items :
                content.items[k].id = id /\ matchesName(content.items[k], name)),
        LAMBDA hit : IF hit = 0 THEN 0 ELSE ItemIndex(itemIds[hit])))

findCharacterInRoom(w, name) ==
    Let(getCurrentRoom(w), LAMBDA room :
    IF room = 0 THEN 0
    ELSE Let(FirstIndex(content.rooms[room].characters, LAMBDA id :
                 \E k \in DOMAIN content.characters :
                     /\ content.characters[k].id = id
                     /\ matchesName(content.characters[k], name)),
             LAMBDA hit : IF hit = 0 THEN 0
                          ELSE CharacterIndex(content.rooms[room].characters[hit])))

matchesEntity(entityId, searchName) ==
    \/ \E k \in DOMAIN content.items :
         content.items[k].id = entityId /\ matchesName(content.items[k], searchName)
    \/ \E k \in DOMAIN content.characters :
         /\ content.characters[k].id = entityId
         /\ matchesName(content.characters[k], searchName)

\* GameRules.getItemsInRoom: the listed items, those not marked invisible
getItemsInRoom(w, roomId) ==
    filter(stateItemsInRoom(w, roomId),
           LAMBDA id : \E k \in DOMAIN content.items :
                           content.items[k].id = id /\ content.items[k].visible)

getCharactersInRoom(roomId) ==
    Let(RoomIndex(roomId), LAMBDA room :
        IF room = 0 THEN <<>>
        ELSE filter(content.rooms[room].characters,
                    LAMBDA id : \E k \in DOMAIN content.characters :
                                    content.characters[k].id = id))

ItemNames(ids) == [k \in DOMAIN ids |-> content.items[ItemIndex(ids[k])].name]
CharacterNames(ids) ==
    [k \in DOMAIN ids |-> content.characters[CharacterIndex(ids[k])].name]

\* displayRoomDescription listing only the exits to rooms not visited yet
displayRoomDescriptionUnexplored(w, room) ==
    Line("room", "room description",
         << room.name, room.description,
            join(ItemNames(getItemsInRoom(w, room.id)), S(", ")),
            join(CharacterNames(getCharactersInRoom(room.id)), S(", ")),
            join(Keys(filter(room.exits, LAMBDA e : ~InSeq(e[2], w.visitedRooms))),
                 S(", ")) >>)

\* displayRoomDescription: name, description, listed items, characters, exits
displayRoomDescription(w, room) ==
    Line("room", "room description",
         << room.name, room.description,
            join(ItemNames(getItemsInRoom(w, room.id)), S(", ")),
            join(CharacterNames(getCharactersInRoom(room.id)), S(", ")),
            join(Keys(room.exits), S(", ")) >>)

\* showAvailableExits
showAvailableExits(room) ==
    IF Len(room.exits) = 0 THEN <<>>
    ELSE << Line("message", "Available exits: ${exitList}",
                 << join(Keys(room.exits), S(", ")) >>) >>

\* checkUnlockCondition without the test of the required item
checkUnlockConditionFlagOnly(w, lockedInfo) ==
    Truthy(lockedInfo.requiresFlag) => Truthy(getFlag(w, lockedInfo.requiresFlag))

\* checkUnlockCondition satisfied by either of the two requirements
checkUnlockConditionEither(w, lockedInfo) ==
    \/ ~Truthy(lockedInfo.requiresItem) /\ ~Truthy(lockedInfo.requiresFlag)
    \/ Truthy(lockedInfo.requiresItem) /\ hasItem(w, lockedInfo.requiresItem)
    \/ Truthy(lockedInfo.requiresFlag) /\ Truthy(getFlag(w, lockedInfo.requiresFlag))

checkUnlockCondition(w, lockedInfo) ==
    /\ Truthy(lockedInfo.requiresItem) => hasItem(w, lockedInfo.requiresItem)
    /\ Truthy(lockedInfo.requiresFlag) => Truthy(getFlag(w, lockedInfo.requiresFlag))

\* GoThrough that takes an exit for unlocked once its target has been visited
GoThroughRemembering(w, room, direction, targetRoomId) ==
    IF /\ HasOwn(room.lockedExits, direction)
       /\ ~InSeq(targetRoomId, w.visitedRooms)
       /\ ~checkUnlockCondition(w, OwnGet(room.lockedExits, direction))
    THEN Let(OwnGet(room.lockedExits, direction), LAMBDA lockedInfo :
         Result(w, << IF Truthy(lockedInfo.message)
                      THEN Line("warning", "${lockedInfo.message}", <<lockedInfo.message>>)
                      ELSE Line("warning", "The way ${direction} is locked.",
                                <<direction>>) >>))
    ELSE Let(RoomIndex(targetRoomId), LAMBDA targetRoom :
         IF targetRoom = 0
         THEN Result(w, << Line("error", "Error: Target room \"${targetRoomId}\" not found!",
                                <<targetRoomId>>) >>)
         ELSE Let(setCurrentRoom(w, targetRoomId), LAMBDA moved :
              Result(markRoomVisited(moved, targetRoomId),
                     << Line("message", "You go ${direction}.\n", <<direction>>),
                        displayRoomDescription(moved, content.rooms[targetRoom]) >>)))

\* handleGo once the exit is known to exist: the lock, the target room, the move
GoThrough(w, room, direction, targetRoomId) ==
    IF /\ HasOwn(room.lockedExits, direction)
       /\ ~checkUnlockCondition(w, OwnGet(room.lockedExits, direction))
    THEN Let(OwnGet(room.lockedExits, direction), LAMBDA lockedInfo :
         Result(w, << IF Truthy(lockedInfo.message)
                      THEN Line("warning", "${lockedInfo.message}", <<lockedInfo.message>>)
                      ELSE Line("warning", "The way ${direction} is locked.",
                                <<direction>>) >>))
    ELSE Let(RoomIndex(targetRoomId), LAMBDA targetRoom :
         IF targetRoom = 0
         THEN Result(w, << Line("error", "Error: Target room \"${targetRoomId}\" not found!",
                                <<targetRoomId>>) >>)
         ELSE Let(setCurrentRoom(w, targetRoomId), LAMBDA moved :
              Result(markRoomVisited(moved, targetRoomId),
                     << Line("message", "You go ${direction}.\n", <<direction>>),
                        displayRoomDescription(moved, content.rooms[targetRoom]) >>)))

\* handleGo from the point where the direction is resolved
GoDirection(w, room, direction) ==
    Let(PlainGet(room.exits, direction), LAMBDA exit :
        IF ~Truthy(exit)
        THEN Result(w, << Line("error", "You can't go ${direction} from here.",
                               <<direction>>) >>
                       \o showAvailableExits(room))
        ELSE GoThrough(w, room, direction, exit))

handleGo(w, command) ==
    IF ~Truthy(command.noun)
    THEN Result(w, << Line("error", "Which direction? Try \"go north\" or just \"north\".",
                           <<>>) >>)
    ELSE Let(getCurrentRoom(w), LAMBDA room :
         IF room = 0
         THEN Result(w, << Line("error", "Error: Current room not found!", <<>>) >>)
         ELSE IF ~IsString(command.noun)
         THEN Throw(w, <<>>)     \* command.noun.toLowerCase is not a function
         ELSE GoDirection(w, content.rooms[room],
                          resolveDirectionSynonym(toLowerCase(command.noun))))

\* displayItemDescription: the description, then "\n" and the text of every
\* state description whose flag is set, in the order of the item's table
RECURSIVE WithStateDescriptions(_, _, _)
WithStateDescriptions(w, description, entries) ==
    IF entries = <<>> THEN description
    ELSE WithStateDescriptions(
             w,
             IF Truthy(getFlag(w, Head(entries)[1]))
             THEN description \o <<"\n">> \o Head(entries)[2]
             ELSE description,
             Tail(entries))

displayItemDescription(w, item) ==
    Line("message", "${description}",
         << WithStateDescriptions(w, item.description, item.stateDescriptions) >>)

displayCharacterDescription(character) ==
    Line("message", "${character.description}", << character.description >>)

\* handleExamine when the noun names no item and no character: room features
ExamineFeature(w, command, thingToExamine, room) ==
    IF room # 0 /\ content.rooms[room].hasFeatures
    THEN Let(PlainGet(content.rooms[room].features, thingToExamine), LAMBDA text :
         IF ~Truthy(text)
         THEN Result(w, << Line("error", "You don't see any \"${command.noun}\" here.",
                                <<command.noun>>) >>)
         ELSE IF IsString(text)
         THEN Result(w, << Line("message", "${feature}", <<text>>) >>)
         ELSE Throw(w, <<>>))    \* createMessageElement: text.split is not a function
    ELSE Result(w, << Line("error", "You don't see any \"${command.noun}\" here.",
                           <<command.noun>>) >>)

\* handleExamine from the lower-cased noun on: inventory, room, characters
ExamineThing(w, command, thingToExamine) ==
    Let(findItemInInventory(w, thingToExamine), LAMBDA inventoryItem :
    IF inventoryItem # 0
    THEN Result(w, << displayItemDescription(w, content.items[inventoryItem]) >>)
    ELSE Let(findItemInRoom(w, thingToExamine), LAMBDA roomItem :
    IF roomItem # 0
    THEN Result(w, << displayItemDescription(w, content.items[roomItem]) >>)
    ELSE Let(findCharacterInRoom(w, thingToExamine), LAMBDA character :
    IF character # 0
    THEN Result(w, << displayCharacterDescription(content.characters[character]) >>)
    ELSE ExamineFeature(w, command, thingToExamine, getCurrentRoom(w)))))

\* handleExamine recording in a flag that something has been examined
handleExamineRemembering(w, command) ==
    IF ~Truthy(command.noun)
    THEN Result(w, << Line("error", "Examine what? Try \"examine <something>\".", <<>>) >>)
    ELSE Let(ExamineThing(w, command, toLowerCase(command.noun)), LAMBDA r :
         [r EXCEPT !.w = setFlag(r.w, S("examined"), JS_TRUE)])

handleExamine(w, command) ==
    IF ~Truthy(command.noun)
    THEN Result(w, << Line("error", "Examine what? Try \"examine <something>\".", <<>>) >>)
    ELSE ExamineThing(w, command, toLowerCase(command.noun))

handleLook(w, command) ==
    IF Truthy(command.noun) THEN handleExamine(w, command)
    ELSE Let(getCurrentRoom(w), LAMBDA room :
         IF room = 0
         THEN Result(w, << Line("error", "Error: Current room not found!", <<>>) >>)
         ELSE Let(markRoomVisited(w, content.rooms[room].id), LAMBDA seen :
              Result(seen, << displayRoomDescription(seen, content.rooms[room]) >>)))

\* processEvent applying the flag and the item only of an event with a message
processEventWhenAnnounced(w, event) ==
    IF Truthy(event.message)
    THEN Result(
            Let(IF Truthy(event.setFlag) THEN setFlag(w, event.setFlag, JS_TRUE) ELSE w,
                LAMBDA w1 : IF Truthy(event.giveItem) THEN addItem(w1, event.giveItem) ELSE w1),
            << Line("message", "${event.message}", <<event.message>>) >>)
    ELSE Result(w, <<>>)

\* processEvent: an item's onTake event
processEvent(w, event) ==
    Result(
        Let(IF Truthy(event.setFlag) THEN setFlag(w, event.setFlag, JS_TRUE) ELSE w,
            LAMBDA w1 : IF Truthy(event.giveItem) THEN addItem(w1, event.giveItem) ELSE w1),
        IF Truthy(event.message)
        THEN << Line("message", "${event.message}", <<event.message>>) >>
        ELSE <<>>)

\* handleTake once the item is found in the room
TakeItem(w, item) ==
    IF item.takeable = FALSE
    THEN Result(w, << IF Truthy(item.takeFailMessage)
                      THEN Line("warning", "${item.takeFailMessage}",
                                <<item.takeFailMessage>>)
                      ELSE Line("warning", "You can't take the ${item.name}.",
                                <<item.name>>) >>)
    ELSE After(<< Line("success", "You pick up the ${item.name}.", <<item.name>>) >>,
               processEvent(addItem(w, item.id), item.onTake))

handleTake(w, command) ==
    IF ~Truthy(command.noun)
    THEN Result(w, << Line("error", "Take what? Try \"take <item>\".", <<>>) >>)
    ELSE Let(findItemInRoom(w, toLowerCase(command.noun)), LAMBDA item :
         IF item = 0
         THEN Let(findItemInInventory(w, toLowerCase(command.noun)), LAMBDA inInventory :
              IF inInventory # 0
              THEN Result(w, << Line("message", "You already have the ${inInventory.name}.",
                                     <<content.items[inInventory].name>>) >>)
              ELSE Result(w, << Line("error",
                                     "You don't see any \"${command.noun}\" here to take.",
                                     <<command.noun>>) >>))
         ELSE TakeItem(w, content.items[item]))

\* handleDrop without the setItemLocation call
handleDropUnplaced(w, command) ==
    IF ~Truthy(command.noun)
    THEN Result(w, << Line("error", "Drop what? Try \"drop <item>\".", <<>>) >>)
    ELSE Let(findItemInInventory(w, toLowerCase(command.noun)), LAMBDA item :
         IF item = 0
         THEN Result(w, << Line("error", "You're not carrying any \"${command.noun}\".",
                                <<command.noun>>) >>)
         ELSE Result(removeItem(w, content.items[item].id),
                     << Line("success", "You drop the ${item.name}.",
                             <<content.items[item].name>>) >>))

handleDrop(w, command) ==
    IF ~Truthy(command.noun)
    THEN Result(w, << Line("error", "Drop what? Try \"drop <item>\".", <<>>) >>)
    ELSE Let(findItemInInventory(w, toLowerCase(command.noun)), LAMBDA item :
         IF item = 0
         THEN Result(w, << Line("error", "You're not carrying any \"${command.noun}\".",
                                <<command.noun>>) >>)
         ELSE Result(setItemLocation(removeItem(w, content.items[item].id),
                                     content.items[item].id, w.currentRoomId),
                     << Line("success", "You drop the ${item.name}.",
                             <<content.items[item].name>>) >>))

\* handleInventory: the carried items that exist in the item table, by name
handleInventory(w, command) ==
    IF Len(w.inventory) = 0
    THEN Result(w, << Line("message", "You're not carrying anything.", <<>>) >>)
    ELSE Result(w, << Line("message", "You are carrying:\n",
                           ItemNames(filter(w.inventory,
                                            LAMBDA id : ItemIndex(id) # 0))) >>)

\* displayDialogueNode preferring the loop pointer to the next node
displayDialogueNodeLoopFirst(w, character, node) ==
    Result(
        Let(IF Truthy(node.setFlag) THEN setFlag(w, node.setFlag, JS_TRUE) ELSE w,
            LAMBDA w1 :
        Let(IF Truthy(node.giveItem) THEN addItem(w1, node.giveItem) ELSE w1,
            LAMBDA w2 :
            IF Truthy(node.loop)
            THEN setDialogueState(w2, character.id, node.loop)
            ELSE setDialogueState(w2, character.id, node.id))),
        << Line("dialogue", "${speaker}: ${text}", <<character.name, node.text>>) >>
        \o IF Truthy(node.giveItem) /\ ItemIndex(node.giveItem) # 0
           THEN << Line("success", "${character.name} gives you: ${item.name}",
                        <<character.name, content.items[ItemIndex(node.giveItem)].name>>) >>
           ELSE <<>>)

\* displayDialogueNode that starts the dialogue over after a node without nextNode
displayDialogueNodeRestarting(w, character, node) ==
    Result(
        Let(IF Truthy(node.setFlag) THEN setFlag(w, node.setFlag, JS_TRUE) ELSE w,
            LAMBDA w1 :
        Let(IF Truthy(node.giveItem) THEN addItem(w1, node.giveItem) ELSE w1,
            LAMBDA w2 :
            IF Truthy(node.nextNode)
            THEN setDialogueState(w2, character.id, node.nextNode)
            ELSE setDialogueState(w2, character.id, character.dialogue[1].id))),
        << Line("dialogue", "${speaker}: ${text}", <<character.name, node.text>>) >>
        \o IF Truthy(node.giveItem) /\ ItemIndex(node.giveItem) # 0
           THEN << Line("success", "${character.name} gives you: ${item.name}",
                        <<character.name, content.items[ItemIndex(node.giveItem)].name>>) >>
           ELSE <<>>)

\* displayDialogueNode: say the node, apply its effects, move the pointer
displayDialogueNode(w, character, node) ==
    Result(
        Let(IF Truthy(node.setFlag) THEN setFlag(w, node.setFlag, JS_TRUE) ELSE w,
            LAMBDA w1 :
        Let(IF Truthy(node.giveItem) THEN addItem(w1, node.giveItem) ELSE w1,
            LAMBDA w2 :
            IF Truthy(node.nextNode)
            THEN setDialogueState(w2, character.id, node.nextNode)
            ELSE IF Truthy(node.loop)
                 THEN setDialogueState(w2, character.id, node.loop)
                 ELSE w2)),
        << Line("dialogue", "${speaker}: ${text}", <<character.name, node.text>>) >>
        \o IF Truthy(node.giveItem) /\ ItemIndex(node.giveItem) # 0
           THEN << Line("success", "${character.name} gives you: ${item.name}",
                        <<character.name, content.items[ItemIndex(node.giveItem)].name>>) >>
           ELSE <<>>)

\* runDialogue reporting a stored pointer that names no node
runDialogueStrict(w, character) ==
    IF Len(character.dialogue) = 0
    THEN Result(w, << IF Truthy(character.defaultGreeting)
                      THEN Line("message", "${character.defaultGreeting}",
                                <<character.defaultGreeting>>)
                      ELSE Line("message",
                                "${character.name} doesn't seem to have anything to say.",
                                <<character.name>>) >>)
    ELSE Let(Or(getDialogueState(w, character.id), character.dialogue[1].id),
             LAMBDA currentNodeId :
         Let(FirstIndex(character.dialogue, LAMBDA n : n.id = currentNodeId),
             LAMBDA node :
             IF node = 0
             THEN Result(w, << Line("error", "Error: dialogue node not found!", <<>>) >>)
             ELSE displayDialogueNode(w, character, character.dialogue[node])))

runDialogue(w, character) ==
    IF Len(character.dialogue) = 0
    THEN Result(w, << IF Truthy(character.defaultGreeting)
                      THEN Line("message", "${character.defaultGreeting}",
                                <<character.defaultGreeting>>)
                      ELSE Line("message",
                                "${character.name} doesn't seem to have anything to say.",
                                <<character.name>>) >>)
    ELSE Let(Or(getDialogueState(w, character.id), character.dialogue[1].id),
             LAMBDA currentNodeId :
         Let(FirstIndex(character.dialogue, LAMBDA n : n.id = currentNodeId),
             LAMBDA node :
             IF node = 0
             THEN displayDialogueNode(w, character, character.dialogue[1])
             ELSE displayDialogueNode(w, character, character.dialogue[node])))

\* the names handleTalk offers when no character is named
TalkSuggestions(characters) ==
    [k \in DOMAIN characters |->
        IF CharacterIndex(characters[k]) # 0
        THEN content.characters[CharacterIndex(characters[k])].name
        ELSE characters[k]]

handleTalk(w, command) ==
    IF ~Truthy(command.noun)
    THEN Let(getCurrentRoom(w), LAMBDA room :
         IF room # 0 /\ Len(content.rooms[room].characters) > 0
         THEN Result(w, << Line("error", "Talk to whom? You can see: ${charNames}",
                                << join(TalkSuggestions(content.rooms[room].characters),
                                        S(", ")) >>) >>)
         ELSE Result(w, << Line("error", "There's no one here to talk to.", <<>>) >>))
    ELSE Let(findCharacterInRoom(w, toLowerCase(command.noun)), LAMBDA character :
         IF character = 0
         THEN Result(w, << Line("error", "You don't see \"${command.noun}\" here to talk to.",
                                <<command.noun>>) >>)
         ELSE runDialogue(w, content.characters[character]))

\* executeUseAction that moves a consumed item to 'nowhere' but leaves it in
\* the inventory array
executeUseActionKeepingItem(w, item, action) ==
    [ Result(
        Let(IF Truthy(action.setFlag) THEN setFlag(w, action.setFlag, JS_TRUE) ELSE w,
            LAMBDA w1 :
        Let(IF Truthy(action.giveItem) THEN addItem(w1, action.giveItem) ELSE w1,
            LAMBDA w2 :
            IF action.consume
            THEN setItemLocation(w2, item.id, S("nowhere"))
            ELSE w2)),
        (IF Truthy(action.message)
         THEN << Line("success", "${action.message}", <<action.message>>) >>
         ELSE <<>>)
        \o IF Truthy(action.giveItem) /\ ItemIndex(action.giveItem) # 0
           THEN << Line("message", "You obtained: ${givenItem.name}",
                        <<content.items[ItemIndex(action.giveItem)].name>>) >>
           ELSE <<>>)
      EXCEPT !.consumed = IF action.consume THEN {item.id} ELSE {} ]

\* executeUseAction: message, flag, granted item, consumption, in this order
executeUseAction(w, item, action) ==
    [ Result(
        Let(IF Truthy(action.setFlag) THEN setFlag(w, action.setFlag, JS_TRUE) ELSE w,
            LAMBDA w1 :
        Let(IF Truthy(action.giveItem) THEN addItem(w1, action.giveItem) ELSE w1,
            LAMBDA w2 :
            IF action.consume
            THEN setItemLocation(removeItem(w2, item.id), item.id, S("nowhere"))
            ELSE w2)),
        (IF Truthy(action.message)
         THEN << Line("success", "${action.message}", <<action.message>>) >>
         ELSE <<>>)
        \o IF Truthy(action.giveItem) /\ ItemIndex(action.giveItem) # 0
           THEN << Line("message", "You obtained: ${givenItem.name}",
                        <<content.items[ItemIndex(action.giveItem)].name>>) >>
           ELSE <<>>)
      EXCEPT !.consumed = IF action.consume THEN {item.id} ELSE {} ]

\* handleUse comparing the target with the configured one as written
UseItemExactTarget(w, command, item) ==
    IF Len(item.useActions) = 0
    THEN Result(w, << IF Truthy(item.useFailMessage)
                      THEN Line("message", "${item.useFailMessage}", <<item.useFailMessage>>)
                      ELSE Line("message", "You're not sure how to use the ${item.name}.",
                                <<item.name>>) >>)
    ELSE IF ~Truthy(command.target)
    THEN Let(FirstIndex(item.useActions, LAMBDA a : ~Truthy(a.target)),
             LAMBDA defaultAction :
         IF defaultAction # 0
         THEN executeUseAction(w, item, item.useActions[defaultAction])
         ELSE Result(w, << Line("error",
                                "Use the ${item.name} on what? Try \"use ${item.name.toLowerCase()} on <target>\".",
                                <<item.name, toLowerCase(item.name)>>) >>))
    ELSE Let(FirstIndex(item.useActions, LAMBDA a :
                 Truthy(a.target) /\ a.target = command.target),
             LAMBDA matchingAction :
         IF matchingAction # 0
         THEN executeUseAction(w, item, item.useActions[matchingAction])
         ELSE Result(w, << Line("message",
                                "Nothing happens when you try to use the ${item.name} on ${command.target}.",
                                <<item.name, command.target>>) >>))

\* handleUse taking the first use-action of the list when no target is given
UseItemFirstListed(w, command, item) ==
    IF Len(item.useActions) = 0
    THEN Result(w, << IF Truthy(item.useFailMessage)
                      THEN Line("message", "${item.useFailMessage}", <<item.useFailMessage>>)
                      ELSE Line("message", "You're not sure how to use the ${item.name}.",
                                <<item.name>>) >>)
    ELSE IF ~Truthy(command.target)
    THEN executeUseAction(w, item, item.useActions[1])
    ELSE Let(FirstIndex(item.useActions, LAMBDA a :
                 /\ Truthy(a.target)
                 /\ \/ toLowerCase(a.target) = toLowerCase(command.target)
                    \/ matchesEntity(a.target, toLowerCase(command.target))),
             LAMBDA matchingAction :
         IF matchingAction # 0
         THEN executeUseAction(w, item, item.useActions[matchingAction])
         ELSE Result(w, << Line("message",
                                "Nothing happens when you try to use the ${item.name} on ${command.target}.",
                                <<item.name, command.target>>) >>))

\* handleUse asking for the target to be at hand, in the room or carried
UseItemTargetHere(w, command, item) ==
    IF Len(item.useActions) = 0
    THEN Result(w, << IF Truthy(item.useFailMessage)
                      THEN Line("message", "${item.useFailMessage}", <<item.useFailMessage>>)
                      ELSE Line("message", "You're not sure how to use the ${item.name}.",
                                <<item.name>>) >>)
    ELSE IF ~Truthy(command.target)
    THEN Let(FirstIndex(item.useActions, LAMBDA a : ~Truthy(a.target)),
             LAMBDA defaultAction :
         IF defaultAction # 0
         THEN executeUseAction(w, item, item.useActions[defaultAction])
         ELSE Result(w, << Line("error",
                                "Use the ${item.name} on what? Try \"use ${item.name.toLowerCase()} on <target>\".",
                                <<item.name, toLowerCase(item.name)>>) >>))
    ELSE Let(FirstIndex(item.useActions, LAMBDA a :
                 /\ Truthy(a.target)
                 /\ \/ findItemInRoom(w, toLowerCase(command.target)) # 0
                    \/ findItemInInventory(w, toLowerCase(command.target)) # 0
                    \/ findCharacterInRoom(w, toLowerCase(command.target)) # 0
                 /\ \/ toLowerCase(a.target) = toLowerCase(command.target)
                    \/ matchesEntity(a.target, toLowerCase(command.target))),
             LAMBDA matchingAction :
         IF matchingAction # 0
         THEN executeUseAction(w, item, item.useActions[matchingAction])
         ELSE Result(w, << Line("message",
                                "Nothing happens when you try to use the ${item.name} on ${command.target}.",
                                <<item.name, command.target>>) >>))

\* handleUse once the item is found in the inventory
UseItem(w, command, item) ==
    IF Len(item.useActions) = 0
    THEN Result(w, << IF Truthy(item.useFailMessage)
                      THEN Line("message", "${item.useFailMessage}", <<item.useFailMessage>>)
                      ELSE Line("message", "You're not sure how to use the ${item.name}.",
                                <<item.name>>) >>)
    ELSE IF ~Truthy(command.target)
    THEN Let(FirstIndex(item.useActions, LAMBDA a : ~Truthy(a.target)),
             LAMBDA defaultAction :
         IF defaultAction # 0
         THEN executeUseAction(w, item, item.useActions[defaultAction])
         ELSE Result(w, << Line("error",
                                "Use the ${item.name} on what? Try \"use ${item.name.toLowerCase()} on <target>\".",
                                <<item.name, toLowerCase(item.name)>>) >>))
    ELSE Let(FirstIndex(item.useActions, LAMBDA a :
                 /\ Truthy(a.target)
                 /\ \/ toLowerCase(a.target) = toLowerCase(command.target)
                    \/ matchesEntity(a.target, toLowerCase(command.target))),
             LAMBDA matchingAction :
         IF matchingAction # 0
         THEN executeUseAction(w, item, item.useActions[matchingAction])
         ELSE Result(w, << Line("message",
                                "Nothing happens when you try to use the ${item.name} on ${command.target}.",
                                <<item.name, command.target>>) >>))

\* handleUse without the look at the items of the room
handleUseCarriedOnly(w, command) ==
    IF ~Truthy(command.noun)
    THEN Result(w, << Line("error",
                           "Use what? Try \"use <item>\" or \"use <item> on <target>\".",
                           <<>>) >>)
    ELSE Let(findItemInInventory(w, toLowerCase(command.noun)), LAMBDA item :
         IF item = 0
         THEN Result(w, << Line("error", "You don't have any \"${command.noun}\".",
                                <<command.noun>>) >>)
         ELSE UseItem(w, command, content.items[item]))

handleUse(w, command) ==
    IF ~Truthy(command.noun)
    THEN Result(w, << Line("error",
                           "Use what? Try \"use <item>\" or \"use <item> on <target>\".",
                           <<>>) >>)
    ELSE Let(findItemInInventory(w, toLowerCase(command.noun)), LAMBDA item :
         IF item = 0
         THEN Let(findItemInRoom(w, toLowerCase(command.noun)), LAMBDA roomItem :
              IF roomItem # 0
              THEN Result(w, << Line("warning",
                                     "You need to pick up the ${roomItem.name} first. Try \"take ${roomItem.name.toLowerCase()}\".",
                                     <<content.items[roomItem].name,
                                       toLowerCase(content.items[roomItem].name)>>) >>)
              ELSE Result(w, << Line("error", "You don't have any \"${command.noun}\".",
                                     <<command.noun>>) >>))
         ELSE UseItem(w, command, content.items[item]))

handleHelp(w, command) == Result(w, << Line("system", "STELLAR VOYAGER HELP", <<>>) >>)

handleQuit(w, command) ==
    Result(w, << Line("message",
                      "Thanks for playing! Refresh the page to start a new game.", <<>>) >>)

\* const handler = this.commandHandlers[command.verb], and the call
Dispatch(w, command, handler) ==
    IF ~Truthy(handler)
    THEN Result(w, << Line("error",
                           "I don't understand \"${command.verb}\". Type \"help\" to see available commands.",
                           <<command.verb>>) >>)
    ELSE IF handler = <<"handleLook">> THEN handleLook(w, command)
    ELSE IF handler = <<"handleGo">> THEN handleGo(w, command)
    ELSE IF handler = <<"handleExamine">> THEN handleExamine(w, command)
    ELSE IF handler = <<"handleTake">> THEN handleTake(w, command)
    ELSE IF handler = <<"handleDrop">> THEN handleDrop(w, command)
    ELSE IF handler = <<"handleInventory">> THEN handleInventory(w, command)
    ELSE IF handler = <<"handleTalk">> THEN handleTalk(w, command)
    ELSE IF handler = <<"handleUse">> THEN handleUse(w, command)
    ELSE IF handler = <<"handleHelp">> THEN handleHelp(w, command)
    ELSE IF handler = <<"handleQuit">> THEN handleQuit(w, command)
    ELSE IF handler = FN_OBJECT THEN Result(w, <<>>)   \* Object(command)
    ELSE Throw(w, <<>>)                                \* handler is not a function

\* GameRules.execute
execute(w, command) ==
    IF ~Truthy(command.verb)
    THEN Result(w, << Line("message",
                           "What would you like to do? Type \"help\" for available commands.",
                           <<>>) >>)
    ELSE IF ~IsString(command.verb)
    THEN Throw(w, <<>>)          \* isDirection: word.toLowerCase is not a function
    ELSE IF isDirection(command.verb)
    THEN handleGo(w, [command EXCEPT !.noun = command.verb])
    ELSE Dispatch(w, command, PlainGet(commandHandlers, command.verb))

----------------------------------------------------------------------------
(* The command lines the player types *)

\* the texts handed to the parser and the rule engine
Inputs ==
    { S("look")
    , S("go east")
    , S("e")
    , S("go west")
    , S("n")
    , S("up")
    , S("go down")
    , S("south")
    , S("take keycard")
    , S("get keycard")
    , S("Take the  Keycard")
    , S("pick up keycard")
    , S("take console")
    , S("take medkit")
    , S("take")
    , S("take ghost")
    , S("drop keycard")
    , S("use keycard on console")
    , S("use keycard")
    , S("use medkit")
    , S("use keycard on ghost")
    , S("use keycard on con")
    , S("use keycard on console in vault")
    , S("use keycard with")
    , S("use token")
    , S("use token on guinan")
    , S("talk guinan")
    , S("talk to guinan")
    , S("talk")
    , S("talk data")
    , S("talk worf")
    , S("talk troi")
    , S("examine console")
    , S("look keycard")
    , S("examine card")
    , S("x viewscreen")
    , S("examine guinan")
    , S("examine constructor")
    , S("inventory")
    , S("help")
    , S("quit")
    , <<>>
    , S("dance")
    , S("   ")
    , S(" The  a")
    , S("constructor")
    , S("go constructor")
    }

\* the texts typed into the input field of a session
SessionInputs ==
    { S("look")
    , S("take keycard")
    , S("use keycard on console")
    , S("use medkit")
    , S(" go east ")
    , S("take medkit")
    , S("constructor")
    , S("talk guinan")
    , S("   ")
    }

\* submitCommand is followed while the history holds fewer entries than this
MaxHistory == 5

----------------------------------------------------------------------------
(* The session pipeline (main.js) *)

\* addToHistory that pushes a command equal to the last entry again
addToHistoryRepeating(h, command) ==
    IF trim(command) = <<>> THEN h
    ELSE [commandHistory |-> Append(h.commandHistory, command),
          historyIndex |-> -1,
          tempInput |-> <<>>]

\* GameState.addToHistory on the fields [commandHistory, historyIndex, tempInput]
addToHistory(h, command) ==
    IF trim(command) = <<>> THEN h
    ELSE [commandHistory |->
              IF h.commandHistory # <<>>
                 /\ h.commandHistory[Len(h.commandHistory)] = command
              THEN h.commandHistory
              ELSE Append(h.commandHistory, command),
          historyIndex |-> -1,
          tempInput |-> <<>>]

\* GameState.navigateHistory that stops on the end of the history instead of
\* returning to index -1
navigateHistoryStoppingAtEnd(h, direction) ==
    IF Len(h.commandHistory) = 0 THEN [h |-> h, value |-> <<>>]
    ELSE Let(IF h.historyIndex = -1 /\ direction = -1
             THEN Len(h.commandHistory) ELSE h.historyIndex, LAMBDA from :
         Let(from + direction, LAMBDA newIndex :
         IF newIndex < 0
         THEN [h |-> [h EXCEPT !.historyIndex = 0], value |-> h.commandHistory[1]]
         ELSE IF newIndex >= Len(h.commandHistory)
         THEN [h |-> [h EXCEPT !.historyIndex = Len(h.commandHistory)],
               value |-> h.tempInput]
         ELSE [h |-> [h EXCEPT !.historyIndex = newIndex],
               value |-> h.commandHistory[newIndex + 1]]))

\* GameState.navigateHistory: the fields after the call and the value
\* returned; historyIndex counts from 0 as in the source
navigateHistory(h, direction) ==
    IF Len(h.commandHistory) = 0 THEN [h |-> h, value |-> <<>>]
    ELSE Let(IF h.historyIndex = -1 /\ direction = -1
             THEN Len(h.commandHistory) ELSE h.historyIndex, LAMBDA from :
         Let(from + direction, LAMBDA newIndex :
         IF newIndex < 0
         THEN [h |-> [h EXCEPT !.historyIndex = 0], value |-> h.commandHistory[1]]
         ELSE IF newIndex >= Len(h.commandHistory)
         THEN [h |-> [h EXCEPT !.historyIndex = -1], value |-> h.tempInput]
         ELSE [h |-> [h EXCEPT !.historyIndex = newIndex],
               value |-> h.commandHistory[newIndex + 1]]))

\* config.objectives.every(objective => getFlag(objective.flag))
allComplete(cfg, w) ==
    \A k \in DOMAIN cfg.objectives : Truthy(getFlag(w, cfg.objectives[k]))

\* checkGameCompletion without the test of the gameCompleted flag
checkGameCompletionUnguarded(cfg, w) ==
    IF cfg.hasObjectives /\ allComplete(cfg, w)
    THEN Result(setFlag(w, S("gameCompleted"), JS_TRUE),
                << Line("victory", "\n${victoryText}\n", <<Or(cfg.victoryText,
                           S("Congratulations! You have completed all objectives!"))>>) >>)
    ELSE Result(w, <<>>)

\* checkGameCompletion asking for at least one objective
checkGameCompletionNonEmpty(cfg, w) ==
    IF Truthy(getFlag(w, S("gameCompleted"))) THEN Result(w, <<>>)
    ELSE IF cfg.hasObjectives /\ Len(cfg.objectives) > 0 /\ allComplete(cfg, w)
    THEN Result(setFlag(w, S("gameCompleted"), JS_TRUE),
                << Line("victory", "\n${victoryText}\n", <<Or(cfg.victoryText,
                           S("Congratulations! You have completed all objectives!"))>>) >>)
    ELSE Result(w, <<>>)

\* checkGameCompletion
checkGameCompletion(cfg, w) ==
    IF Truthy(getFlag(w, S("gameCompleted"))) THEN Result(w, <<>>)
    ELSE IF cfg.hasObjectives /\ allComplete(cfg, w)
    THEN Result(setFlag(w, S("gameCompleted"), JS_TRUE),
                << Line("victory", "\n${victoryText}\n", <<Or(cfg.victoryText,
                           S("Congratulations! You have completed all objectives!"))>>) >>)
    ELSE Result(w, <<>>)

\* executeCommand after rules.execute: an exception leaves the function at
\* that point, otherwise the completion check follows
Completed(cfg, h, echo, ran) ==
    IF ran.threw
    THEN [w |-> ran.w, h |-> h, out |-> echo \o ran.out, threw |-> TRUE,
          consumed |-> ran.consumed]
    ELSE Let(checkGameCompletion(cfg, ran.w), LAMBDA done :
             [w |-> done.w, h |-> h, out |-> echo \o ran.out \o done.out,
              threw |-> FALSE, consumed |-> ran.consumed])

\* executeCommand: echo, history, parse, execute, completion check
executeCommand(cfg, w, h, commandText) ==
    Completed(cfg, addToHistory(h, commandText),
              IF toLowerCase(commandText) # S("look") \/ Len(h.commandHistory) > 0
              THEN << Line("command", "> ${commandText}", <<commandText>>) >>
              ELSE <<>>,
              execute(w, parse(commandText)))

----------------------------------------------------------------------------
(* The state machine *)

\* the GameState fields as one record
World ==
    [currentRoomId |-> currentRoomId, inventory |-> inventory, flags |-> flags,
     visitedRooms |-> visitedRooms, itemLocations |-> itemLocations,
     characterDialogueState |-> characterDialogueState]

History ==
    [commandHistory |-> commandHistory, historyIndex |-> historyIndex,
     tempInput |-> tempInput]

IsVictory(line) == line.kind = "victory"
IsEcho(line) == line.kind = "command"

IsBareLook(command) ==
    /\ IsString(command.verb)
    /\ PlainGet(commandHandlers, command.verb) = <<"handleLook">>
    /\ ~Truthy(command.noun)

NoTrip == [stage |-> 0, room |-> <<>>, via |-> <<>>, out |-> <<>>, w |-> <<>>]

\* The record of the last look / go / go back / look sequence: stage 1 after
\* a look, 2 after a move that follows it (the room, narration and state of
\* the look are kept), 3 after the move back, 4 after the closing look.
TripNext(before, beforeOut, command, ran) ==
    LET moved == ran.w.currentRoomId # before.currentRoomId IN
    IF ran.threw THEN NoTrip
    ELSE IF IsBareLook(command)
    THEN IF trip.stage = 3 THEN [trip EXCEPT !.stage = 4]
         ELSE [NoTrip EXCEPT !.stage = 1]
    ELSE IF moved /\ trip.stage \in {1, 4}
    THEN [stage |-> 2, room |-> before.currentRoomId, via |-> ran.w.currentRoomId,
          out |-> beforeOut, w |-> before]
    ELSE IF moved /\ trip.stage = 2 /\ ran.w.currentRoomId = trip.room
    THEN [trip EXCEPT !.stage = 3]
    ELSE NoTrip

Commit(text, command, ran) ==
    /\ currentRoomId' = ran.w.currentRoomId
    /\ inventory' = ran.w.inventory
    /\ flags' = ran.w.flags
    /\ visitedRooms' = ran.w.visitedRooms
    /\ itemLocations' = ran.w.itemLocations
    /\ characterDialogueState' = ran.w.characterDialogueState
    /\ lastInput' = text
    /\ narration' = ran.out
    /\ threw' = ran.threw
    /\ consumed' = consumed \cup ran.consumed
    /\ justConsumed' = ran.consumed
    /\ trip' = TripNext(World, SelectSeq(narration, LAMBDA l : ~IsEcho(l)),
                        command, ran)
    /\ restored' = NoSave
    /\ UNCHANGED content

CommitSession(text, ran) ==
    /\ Commit(text, parse(text), ran)
    /\ commandHistory' = ran.h.commandHistory
    /\ historyIndex' = ran.h.historyIndex
    /\ tempInput' = ran.h.tempInput
    /\ victories' = victories + Len(SelectSeq(ran.out, IsVictory))

\* which branch of GameRules.execute a command takes
Route(command) ==
    IF ~Truthy(command.verb) THEN <<"empty">>
    ELSE IF ~IsString(command.verb) THEN <<"throw">>
    ELSE IF isDirection(command.verb) THEN <<"direction">>
    ELSE IF Truthy(PlainGet(commandHandlers, command.verb))
         THEN PlainGet(commandHandlers, command.verb)
         ELSE <<"unknown">>

Init ==
    /\ content \in { Content(cfg) : cfg \in Configs }
    /\ \E state \in { NewGameState(content) } :
         /\ currentRoomId = state.currentRoomId
         /\ inventory = state.inventory
         /\ flags = state.flags
         /\ visitedRooms = state.visitedRooms
         /\ itemLocations = state.itemLocations
         /\ characterDialogueState = state.characterDialogueState
    /\ commandHistory = <<>>
    /\ historyIndex = -1
    /\ tempInput = <<>>
    /\ phase = "boot"
    /\ lastInput = <<>>
    /\ narration = <<>>
    /\ threw = FALSE
    /\ victories = 0
    /\ consumed = {}
    /\ justConsumed = {}
    /\ trip = NoTrip
    /\ inputValue = <<>>
    /\ pressed = 0
    /\ restored = NoSave

\* initializeGame, from the first command on: executeCommand('look')
initializeGame ==
    /\ phase = "boot"
    /\ phase' = "play"
    /\ UNCHANGED <<inputValue, pressed>>
    /\ CommitSession(S("look"), executeCommand(content.config, World, History, S("look")))

\* parser.parse and the branch of execute it leads to, for every text
Parsed == [text \in Inputs \cup {S("look")} |-> parse(text)]
RouteOf == [text \in Inputs |-> Route(Parsed[text])]

\* rules.execute(parser.parse(text))
Run(text) ==
    /\ Commit(text, Parsed[text], execute(World, Parsed[text]))
    /\ UNCHANGED <<commandHistory, historyIndex, tempInput, phase, victories,
                   inputValue, pressed>>

\* One action for each branch of GameRules.execute.

\* an empty verb: the prompt for a command
ExecuteEmpty ==
    /\ phase = "play"
    /\ \E text \in Inputs : RouteOf[text] = <<"empty">> /\ Run(text)

\* a direction word as the verb: handleGo with the verb as noun
ExecuteDirection ==
    /\ phase = "play"
    /\ \E text \in Inputs : RouteOf[text] = <<"direction">> /\ Run(text)

\* look, l
ExecuteLook ==
    /\ phase = "play"
    /\ \E text \in Inputs : RouteOf[text] = <<"handleLook">> /\ Run(text)

\* go, walk, move
ExecuteGo ==
    /\ phase = "play"
    /\ \E text \in Inputs : RouteOf[text] = <<"handleGo">> /\ Run(text)

\* examine, x, inspect
ExecuteExamine ==
    /\ phase = "play"
    /\ \E text \in Inputs : RouteOf[text] = <<"handleExamine">> /\ Run(text)

\* take, get, grab, pickup
ExecuteTake ==
    /\ phase = "play"
    /\ \E text \in Inputs : RouteOf[text] = <<"handleTake">> /\ Run(text)

\* drop, put, discard
ExecuteDrop ==
    /\ phase = "play"
    /\ \E text \in Inputs : RouteOf[text] = <<"handleDrop">> /\ Run(text)

\* inventory, i, inv
ExecuteInventory ==
    /\ phase = "play"
    /\ \E text \in Inputs : RouteOf[text] = <<"handleInventory">> /\ Run(text)

\* talk, speak, chat
ExecuteTalk ==
    /\ phase = "play"
    /\ \E text \in Inputs : RouteOf[text] = <<"handleTalk">> /\ Run(text)

\* use, activate
ExecuteUse ==
    /\ phase = "play"
    /\ \E text \in Inputs : RouteOf[text] = <<"handleUse">> /\ Run(text)

\* help, ?
ExecuteHelp ==
    /\ phase = "play"
    /\ \E text \in Inputs : RouteOf[text] = <<"handleHelp">> /\ Run(text)

\* quit, exit
ExecuteQuit ==
    /\ phase = "play"
    /\ \E text \in Inputs : RouteOf[text] = <<"handleQuit">> /\ Run(text)

\* a verb the handler table does not hold
ExecuteUnknown ==
    /\ phase = "play"
    /\ \E text \in Inputs : RouteOf[text] = <<"unknown">> /\ Run(text)

\* a verb that is no string: isDirection raises a TypeError
ExecuteNonStringVerb ==
    /\ phase = "play"
    /\ \E text \in Inputs : RouteOf[text] = <<"throw">> /\ Run(text)

Next ==
    \/ initializeGame
    \/ ExecuteEmpty
    \/ ExecuteDirection
    \/ ExecuteLook
    \/ ExecuteGo
    \/ ExecuteExamine
    \/ ExecuteTake
    \/ ExecuteDrop
    \/ ExecuteInventory
    \/ ExecuteTalk
    \/ ExecuteUse
    \/ ExecuteHelp
    \/ ExecuteQuit
    \/ ExecuteUnknown
    \/ ExecuteNonStringVerb

Spec == Init /\ [][Next]_vars

\* submitCommand: the trimmed text of the input field, ignored when empty
submitCommand ==
    /\ phase = "play"
    /\ Len(commandHistory) < MaxHistory
    /\ \E typed \in SessionInputs :
         LET commandText == trim(typed) IN
         /\ commandText # <<>>
         /\ CommitSession(commandText,
                          executeCommand(content.config, World, History, commandText))
    /\ inputValue' = <<>>
    /\ pressed' = 0
    /\ UNCHANGED phase

NextSession == initializeGame \/ submitCommand

SpecSession == Init /\ [][NextSession]_vars

----------------------------------------------------------------------------
(* The command history on its own *)

\* the texts handed to addToHistory
HistoryCommands == { S("look"), S("go east"), S("take keycard"), S("   "), <<>> }

\* GameState.addToHistory(command), as executeCommand calls it
AddToHistory ==
    /\ Len(commandHistory) < MaxHistory
    /\ \E command \in HistoryCommands :
       \E added \in { addToHistory(History, command) } :
         /\ commandHistory' = added.commandHistory
         /\ historyIndex' = added.historyIndex
         /\ tempInput' = added.tempInput
         /\ lastInput' = command
    /\ pressed' = 0
    /\ UNCHANGED <<content, currentRoomId, inventory, flags, visitedRooms,
                   itemLocations, characterDialogueState, phase,
                   narration, threw, victories, consumed, justConsumed, trip,
                   inputValue, restored>>

\* GameState.navigateHistory(direction), as the keydown handler calls it on
\* ArrowUp (-1) and ArrowDown (1): the value returned becomes the text of the
\* input field
NavigateHistory ==
    /\ \E direction \in {-1, 1} :
       \E moved \in { navigateHistory(History, direction) } :
         /\ commandHistory' = moved.h.commandHistory
         /\ historyIndex' = moved.h.historyIndex
         /\ tempInput' = moved.h.tempInput
         /\ inputValue' = moved.value
         /\ pressed' = direction
    /\ UNCHANGED <<content, currentRoomId, inventory, flags, visitedRooms,
                   itemLocations, characterDialogueState, phase, lastInput,
                   narration, threw, victories, consumed, justConsumed, trip,
                   restored>>

NextHistory == AddToHistory \/ NavigateHistory

SpecHistory == Init /\ [][NextHistory]_vars


----------------------------------------------------------------------------
(* Loading: loadAllContent hands the tables to validateContentReferences   *)
(* before the game state is constructed.                                   *)

\* the errors validateContentReferences collects for one room: its exits,
\* then its items, then its characters
RoomReferenceErrors(c, room) ==
    [k \in DOMAIN filter(room.exits, LAMBDA e :
                \A r \in DOMAIN c.rooms : c.rooms[r].id # e[2]) |-> "exit"]
    \o [k \in DOMAIN filter(room.items, LAMBDA id :
                \A i \in DOMAIN c.items : c.items[i].id # id) |-> "item"]
    \o [k \in DOMAIN filter(room.characters, LAMBDA id :
                \A ch \in DOMAIN c.characters : c.characters[ch].id # id) |-> "character"]

RECURSIVE ReferenceErrorsFrom(_, _)
ReferenceErrorsFrom(c, k) ==
    IF k > Len(c.rooms) THEN <<>>
    ELSE RoomReferenceErrors(c, c.rooms[k]) \o ReferenceErrorsFrom(c, k + 1)

\* ContentLoader.validateContentReferences: the errors array; it throws when
\* the array is not empty
validateContentReferences(c) == ReferenceErrorsFrom(c, 1)

\* the tables of the ship section
ShipContent == Content(Config(S("bridge"), TRUE, <<S("healed"), S("powerOn")>>))

\* rooms.json with the bridge's exit east leading to a room that is not defined
UnknownExitTarget ==
    [ShipContent EXCEPT !.rooms[1].exits[1] = <<S("east"), S("engine")>>]

\* rooms.json with an item on the bridge that items.json does not define
UnknownRoomItem ==
    [ShipContent EXCEPT !.rooms[1].items = @ \o <<S("phaser")>>]

\* items.json with the keycard's use-action on the console giving an item
\* that items.json does not define
UnknownGivenItem ==
    [ShipContent EXCEPT !.items[1].useActions[1].giveItem = S("phaser")]

\* the content directories the game is started on
LoadedContents == {ShipContent, UnknownExitTarget, UnknownRoomItem, UnknownGivenItem}

InitLoad ==
    /\ content \in LoadedContents
    /\ currentRoomId = <<>>
    /\ inventory = <<>>
    /\ flags = <<>>
    /\ visitedRooms = <<>>
    /\ itemLocations = <<>>
    /\ characterDialogueState = <<>>
    /\ commandHistory = <<>>
    /\ historyIndex = -1
    /\ tempInput = <<>>
    /\ phase = "load"
    /\ lastInput = <<>>
    /\ narration = <<>>
    /\ threw = FALSE
    /\ victories = 0
    /\ consumed = {}
    /\ justConsumed = {}
    /\ trip = NoTrip
    /\ inputValue = <<>>
    /\ pressed = 0
    /\ restored = NoSave

\* loadAllContent followed by the construction of the game state, or by
\* handleInitializationError when validateContentReferences throws
loadAllContent ==
    /\ phase = "load"
    /\ \E errors \in { validateContentReferences(content) } :
       \E state \in { NewGameState(content) } :
         IF errors # <<>>
         THEN /\ phase' = "failed"
              /\ narration' = << Line("error", "Content validation failed", errors) >>
              /\ UNCHANGED <<currentRoomId, inventory, flags, visitedRooms,
                             itemLocations, characterDialogueState>>
         ELSE /\ phase' = "boot"
              /\ currentRoomId' = state.currentRoomId
              /\ inventory' = state.inventory
              /\ flags' = state.flags
              /\ visitedRooms' = state.visitedRooms
              /\ itemLocations' = state.itemLocations
              /\ characterDialogueState' = state.characterDialogueState
              /\ UNCHANGED narration
    /\ UNCHANGED <<content, commandHistory, historyIndex, tempInput, lastInput,
                   threw, victories, consumed, justConsumed, trip,
                   inputValue, pressed, restored>>

NextLoad == loadAllContent \/ Next

SpecLoad == InitLoad /\ [][NextLoad]_vars

----------------------------------------------------------------------------
(* Saving and restoring the game state *)

\* the ship with the console under the identifier "7"
NumberedContent ==
    [rooms |-> [Rooms EXCEPT ![1].items = <<S("keycard"), S("7")>>],
     items |-> [Items EXCEPT ![2].id = S("7"),
                             ![1].useActions[1].target = S("7")],
     characters |-> Characters,
     config |-> Config(S("bridge"), TRUE, <<S("healed"), S("powerOn")>>)]

SavedContents ==
    { NumberedContent, Content(Config(S("lounge"), TRUE, <<S("heardTale")>>)) }

InitSave ==
    /\ content \in SavedContents
    /\ \E state \in { NewGameState(content) } :
         /\ currentRoomId = state.currentRoomId
         /\ inventory = state.inventory
         /\ flags = state.flags
         /\ visitedRooms = state.visitedRooms
         /\ itemLocations = state.itemLocations
         /\ characterDialogueState = state.characterDialogueState
    /\ commandHistory = <<>>
    /\ historyIndex = -1
    /\ tempInput = <<>>
    /\ phase = "boot"
    /\ lastInput = <<>>
    /\ narration = <<>>
    /\ threw = FALSE
    /\ victories = 0
    /\ consumed = {}
    /\ justConsumed = {}
    /\ trip = NoTrip
    /\ inputValue = <<>>
    /\ pressed = 0
    /\ restored = NoSave

\* a fresh GameState restored from the save of the current one:
\* new GameState(config).fromJSON(state.toJSON())
SaveAndRestore ==
    /\ phase = "play"
    /\ restored = NoSave
    /\ restored' = fromJSON([currentRoomId |-> content.config.startingRoom,
                             inventory |-> <<>>, flags |-> <<>>,
                             visitedRooms |-> <<>>, itemLocations |-> <<>>,
                             characterDialogueState |-> <<>>],
                            toJSON(World))
    /\ lastInput' = <<>>
    /\ narration' = <<>>
    /\ threw' = FALSE
    /\ justConsumed' = {}
    /\ trip' = NoTrip
    /\ UNCHANGED <<content, currentRoomId, inventory, flags, visitedRooms,
                   itemLocations, characterDialogueState, commandHistory,
                   historyIndex, tempInput, phase, victories, consumed,
                   inputValue, pressed>>

NextSave == SaveAndRestore \/ Next

SpecSave == InitSave /\ [][NextSave]_vars

----------------------------------------------------------------------------
(* Granted, hidden and plain items *)

\* the ships with a card case and a hidden badge in the lounge, a token that is
\* spent when used unless it is shown to Troi, and Troi handing out the token each time she is spoken to
StockedContent(cfg) ==
    [rooms |-> [Rooms EXCEPT ![4].items = <<S("case"), S("badge")>>],
     items |-> [Items EXCEPT ![4].useActions =
                    << UseAction(S("troi"), S("Troi smiles."),
                                 UNDEFINED, UNDEFINED, FALSE),
                       UseAction(UNDEFINED, S("You spend the token."),
                                 UNDEFINED, UNDEFINED, TRUE) >>]
               \o
               << [id |-> S("case"), name |-> S("Card Case"), description |-> S("A leather case."),
                   aliases |-> <<>>, takeable |-> TRUE, takeFailMessage |-> UNDEFINED,
                   visible |-> TRUE, onTake |-> NoEvent, useFailMessage |-> UNDEFINED,
                   stateDescriptions |-> <<>>, useActions |-> <<>>],
                  [id |-> S("badge"), name |-> S("Badge"), description |-> S("A comm badge."),
                   aliases |-> <<>>, takeable |-> TRUE, takeFailMessage |-> UNDEFINED,
                   visible |-> FALSE, onTake |-> NoEvent, useFailMessage |-> UNDEFINED,
                   stateDescriptions |-> <<>>, useActions |-> <<>>] >>,
     characters |-> [Characters EXCEPT ![3].dialogue =
                        << Node(S("calm"), S("Be calm."), UNDEFINED, S("token"),
                                UNDEFINED, UNDEFINED) >>],
     config |-> cfg]

\* the texts handed to the rule engine on the stocked ships
StockedInputs ==
    { S("look"), S("go east"), S("south"),
      S("take keycard"), S("use keycard on console"), S("use keycard on ghost"),
      S("take medkit"), S("drop medkit"), S("use medkit"),
      S("take token"), S("drop token"), S("use token"), S("use token on Troi"),
      S("talk troi"),
      S("take card"), S("drop card"),
      S("take badge"), S("examine badge"), S("use badge") }

ParsedStocked == [text \in StockedInputs |-> parse(text)]

InitStocked ==
    /\ content \in { StockedContent(cfg) : cfg \in Configs }
    /\ \E state \in { NewGameState(content) } :
         /\ currentRoomId = state.currentRoomId
         /\ inventory = state.inventory
         /\ flags = state.flags
         /\ visitedRooms = state.visitedRooms
         /\ itemLocations = state.itemLocations
         /\ characterDialogueState = state.characterDialogueState
    /\ commandHistory = <<>>
    /\ historyIndex = -1
    /\ tempInput = <<>>
    /\ phase = "boot"
    /\ lastInput = <<>>
    /\ narration = <<>>
    /\ threw = FALSE
    /\ victories = 0
    /\ consumed = {}
    /\ justConsumed = {}
    /\ trip = NoTrip
    /\ inputValue = <<>>
    /\ pressed = 0
    /\ restored = NoSave

\* rules.execute(parser.parse(text)) on the stocked ships
ExecuteStocked ==
    /\ phase = "play"
    /\ \E text \in StockedInputs :
         Commit(text, ParsedStocked[text], execute(World, ParsedStocked[text]))
    /\ UNCHANGED <<commandHistory, historyIndex, tempInput, phase, victories,
                   inputValue, pressed>>

NextStocked == initializeGame \/ ExecuteStocked

SpecStocked == InitStocked /\ [][NextStocked]_vars

----------------------------------------------------------------------------
(* Objective lists *)

\* config.json with an empty objective list, with no objective list, and
\* with one objective
ObjectiveConfigs ==
    { Config(S("bridge"), TRUE, <<>>),
      Config(S("bridge"), FALSE, <<>>),
      Config(S("bridge"), TRUE, <<S("powerOn")>>) }

InitObjectives ==
    /\ content \in { Content(cfg) : cfg \in ObjectiveConfigs }
    /\ \E state \in { NewGameState(content) } :
         /\ currentRoomId = state.currentRoomId
         /\ inventory = state.inventory
         /\ flags = state.flags
         /\ visitedRooms = state.visitedRooms
         /\ itemLocations = state.itemLocations
         /\ characterDialogueState = state.characterDialogueState
    /\ commandHistory = <<>>
    /\ historyIndex = -1
    /\ tempInput = <<>>
    /\ phase = "boot"
    /\ lastInput = <<>>
    /\ narration = <<>>
    /\ threw = FALSE
    /\ victories = 0
    /\ consumed = {}
    /\ justConsumed = {}
    /\ trip = NoTrip
    /\ inputValue = <<>>
    /\ pressed = 0
    /\ restored = NoSave

SpecObjectives == InitObjectives /\ [][NextSession]_vars

----------------------------------------------------------------------------
(* Properties.  In an action formula the command of the step is            *)
(* Parsed[lastInput'], the state before it is World and the lines it sent  *)
(* to the renderer are narration'.                                         *)

\* the direction a command asks handleGo to follow, <<>> when it asks for none
Heading(command) ==
    IF ~Truthy(command.verb) \/ ~IsString(command.verb) THEN <<>>
    ELSE IF isDirection(command.verb)
    THEN resolveDirectionSynonym(toLowerCase(command.verb))
    ELSE IF /\ PlainGet(commandHandlers, command.verb) = <<"handleGo">>
            /\ Truthy(command.noun) /\ IsString(command.noun)
    THEN resolveDirectionSynonym(toLowerCase(command.noun))
    ELSE <<>>

HereRoom == content.rooms[RoomIndex(currentRoomId)]

Warned(lines) == \E k \in DOMAIN lines : lines[k].kind = "warning"
Failed(lines) == \E k \in DOMAIN lines : lines[k].kind \in {"error", "warning"}
Went(lines) == lines # <<>> /\ lines[1].text = "You go ${direction}.\n"

\* the step is a move attempted through an exit of the current room whose
\* locked-exit entry requires an item
ItemLockedMove(d) ==
    /\ phase = "play"
    /\ d # <<>>
    /\ HasOwn(HereRoom.exits, d)
    /\ HasOwn(HereRoom.lockedExits, d)
    /\ Truthy(OwnGet(HereRoom.lockedExits, d).requiresItem)

\* C1 as stated: a move through an exit whose lock requires item K leaves the
\* current room unchanged and the target unmarked while K is not carried, and
\* once K is carried the move updates the current room without a lock message.
C1_AsStated ==
    [][ LET d == Heading(Parsed[lastInput']) IN
        ItemLockedMove(d) =>
          LET lock == OwnGet(HereRoom.lockedExits, d)
              target == OwnGet(HereRoom.exits, d)
          IN /\ ~hasItem(World, lock.requiresItem) =>
                   /\ currentRoomId' = currentRoomId
                   /\ InSeq(target, visitedRooms') => InSeq(target, visitedRooms)
             /\ hasItem(World, lock.requiresItem) =>
                   /\ currentRoomId' = target
                   /\ ~Warned(narration') ]_vars

\* C1 amended: while K is not carried the move leaves the current room
\* unchanged and does not mark the target visited; once K is carried and the
\* flag the same lock requires, if it requires one, is truthy, the move updates
\* the current room and no lock message is emitted.
C1_LockedExitGating ==
    [][ LET d == Heading(Parsed[lastInput']) IN
        ItemLockedMove(d) =>
          LET lock == OwnGet(HereRoom.lockedExits, d)
              target == OwnGet(HereRoom.exits, d)
          IN /\ ~hasItem(World, lock.requiresItem) =>
                   /\ currentRoomId' = currentRoomId
                   /\ InSeq(target, visitedRooms') => InSeq(target, visitedRooms)
             /\ ( /\ hasItem(World, lock.requiresItem)
                  /\ Truthy(lock.requiresFlag) => Truthy(getFlag(World, lock.requiresFlag)) )
                => /\ currentRoomId' = target
                   /\ ~Warned(narration') ]_vars

\* the player has just gone up from the bridge through the exit that requires
\* the keycard and the power flag
C1_Witness ==
    /\ lastInput = S("up")
    /\ currentRoomId = S("vault")
    /\ Went(narration)
    /\ hasItem(World, S("keycard"))

Victory(lines) == \E k \in DOMAIN lines : IsVictory(lines[k])

\* C2: the victory narration is emitted at most once over a session, exactly
\* on the command after which all objective flags are truthy for the first
\* time, and from then on the gameCompleted flag is recorded.
C2_VictoryOnce ==
    [][ /\ victories' <= 1
        /\ Victory(narration') <=>
             /\ allComplete(content.config, World')
             /\ ~allComplete(content.config, World) \/ phase = "boot"
        /\ victories' = 1 => Truthy(getFlag(World', S("gameCompleted"))) ]_vars

\* a command processed after the one that brought the victory narration
C2_Witness ==
    /\ victories = 1
    /\ ~Victory(narration)
    /\ Truthy(getFlag(World, S("gameCompleted")))
    /\ lastInput = S("look")

\* X is in no listing: not carried, and not among the items of any room
Absent(w, X) ==
    /\ ~hasItem(w, X)
    /\ \A r \in DOMAIN content.rooms :
         /\ ~InSeq(X, stateItemsInRoom(w, content.rooms[r].id))
         /\ \A k \in DOMAIN getItemsInRoom(w, content.rooms[r].id) :
              getItemsInRoom(w, content.rooms[r].id)[k] # X

\* the command is a use of the item X and of no other item in scope
UseOf(w, command, X) ==
    /\ IsString(command.verb)
    /\ PlainGet(commandHandlers, command.verb) = <<"handleUse">>
    /\ Truthy(command.noun)
    /\ \A k \in DOMAIN content.items :
         matchesName(content.items[k], toLowerCase(command.noun))
           <=> content.items[k].id = X

DontHave(lines) ==
    /\ Len(lines) = 1
    /\ lines[1].kind = "error"
    /\ lines[1].text = "You don't have any \"${command.noun}\"."

\* the step narrates that a giveItem effect handed over the item X
Granted(lines, X) ==
    \E k \in DOMAIN lines :
        /\ lines[k].text \in {"You obtained: ${givenItem.name}",
                              "${character.name} gives you: ${item.name}"}
        /\ lines[k].args[Len(lines[k].args)] = content.items[ItemIndex(X)].name

\* C3 as stated: once a consuming use-action has executed for X, X is in no
\* listing in any later state and every later use of X reports "don't have".
C3_AsStated ==
    [][ \A X \in consumed' :
          /\ Absent(World', X)
          /\ (X \in consumed /\ UseOf(World, Parsed[lastInput'], X))
               => DontHave(narration') ]_vars

\* C3 amended: the consuming use-action leaves X in no listing, and X stays in
\* no listing, every use of X reporting "don't have", until a giveItem effect
\* names X again.
C3_ConsumedUntilGranted ==
    [][ \A X \in consumed' :
          /\ X \in justConsumed' => Absent(World', X)
          /\ (X \notin justConsumed' /\ Absent(World, X)) =>
               /\ Absent(World', X) \/ Granted(narration', X)
               /\ UseOf(World, Parsed[lastInput'], X) => DontHave(narration') ]_vars

\* the medkit has been consumed and a later "use medkit" has been answered
C3_Witness ==
    /\ S("medkit") \in consumed
    /\ lastInput = S("use medkit")
    /\ DontHave(narration)
    /\ Absent(World, S("medkit"))

\* a node without nextNode whose loop names the node itself
LoopsOnItself(node) == ~Truthy(node.nextNode) /\ node.loop = node.id

\* the command is a talk that reaches the character c
TalkTo(w, command, c) ==
    /\ IsString(command.verb)
    /\ PlainGet(commandHandlers, command.verb) = <<"handleTalk">>
    /\ Truthy(command.noun)
    /\ findCharacterInRoom(w, toLowerCase(command.noun)) = c

\* C4: once the dialogue pointer of a character is at a node without next node
\* whose loop names itself, no step changes the pointer and every talk to the
\* character displays the text of that node.
C4_DialogueLoop ==
    [][ \A c \in DOMAIN content.characters :
        \A n \in DOMAIN content.characters[c].dialogue :
          LET who == content.characters[c]
              node == who.dialogue[n]
          IN (LoopsOnItself(node) /\ getDialogueState(World, who.id) = node.id) =>
               /\ getDialogueState(World', who.id) = node.id
               /\ TalkTo(World, Parsed[lastInput'], c) =>
                    narration' = << Line("dialogue", "${speaker}: ${text}",
                                         <<who.name, node.text>>) >> ]_vars

\* guinan has been talked to twice in a row at her looping node
C4_Witness ==
    /\ getDialogueState(World, S("guinan")) = S("idle")
    /\ lastInput = S("talk guinan")
    /\ Len(narration) = 1
    /\ narration[1].kind = "dialogue"
    /\ narration[1].args[2] = content.characters[CharacterIndex(S("guinan"))].dialogue[3].text

\* the verbs whose handlers ask for a noun
NeedsNoun ==
    {<<"handleGo">>, <<"handleExamine">>, <<"handleTake">>, <<"handleDrop">>,
     <<"handleTalk">>, <<"handleUse">>}

\* the command is a user-intent error: its verb is neither a direction nor a
\* verb of the handler table, or its handler asks for a noun it does not have
IntentError(command) ==
    /\ Truthy(command.verb)
    /\ \/ IsString(command.verb) /\ ~isDirection(command.verb)
            /\ ~HasOwn(commandHandlers, command.verb)
       \/ ~IsString(command.verb)
       \/ /\ IsString(command.verb) /\ HasOwn(commandHandlers, command.verb)
          /\ OwnGet(commandHandlers, command.verb) \in NeedsNoun
          /\ ~Truthy(command.noun)

\* C5: every failing path (unknown verb, missing noun, entity not found, not
\* takeable, not carried, no such exit, lock unmet) emits a narration and
\* leaves room, inventory, flags, visited rooms, item locations and dialogue
\* pointers as they were.
C5_ErrorsChangeNothing ==
    [][ phase = "play" =>
        /\ Failed(narration') => World' = World
        /\ IntentError(Parsed[lastInput']) =>
             /\ Failed(narration')
             /\ World' = World ]_vars

\* C6: every input is executed to completion and ends in a narration; none
\* raises an uncaught exception.
C6_NoFatalCondition ==
    phase = "play" =>
        /\ ~threw
        /\ \E k \in DOMAIN narration : ~IsEcho(narration[k])

\* C7: a command whose canonical verb is neither a direction word nor a verb
\* of the handler table gets the error narration naming the verb, and no
\* handler runs.
C7_UnknownVerbNamed ==
    [][ LET command == Parsed[lastInput'] IN
        ( /\ phase = "play"
          /\ Truthy(command.verb)
          /\ ~(IsString(command.verb) /\ isDirection(command.verb))
          /\ ~HasOwn(commandHandlers, command.verb) )
        => /\ Len(narration') = 1
           /\ narration'[1].kind = "error"
           /\ narration'[1].args = <<command.verb>>
           /\ World' = World ]_vars

Count(x, xs) == Cardinality({k \in DOMAIN xs : xs[k] = x})

\* C8: a successful move sets the current room to the target of the exit and
\* leaves the target in visitedRooms exactly once; visitedRooms loses no
\* member on any step.
C8_MoveMarksVisitedOnce ==
    [][ /\ \A k \in DOMAIN visitedRooms : InSeq(visitedRooms[k], visitedRooms')
        /\ Went(narration') =>
             LET d == Heading(Parsed[lastInput']) IN
             /\ HasOwn(HereRoom.exits, d)
             /\ currentRoomId' = OwnGet(HereRoom.exits, d)
             /\ Count(currentRoomId', visitedRooms') = 1 ]_vars

\* the player has just gone back to the bridge, visited before
C8_Witness ==
    /\ lastInput = S("go west")
    /\ Went(narration)
    /\ currentRoomId = S("bridge")
    /\ Count(S("bridge"), visitedRooms) = 1
    /\ Count(S("corridor"), visitedRooms) = 1

\* C9: after look, go through an exit, go back through the return exit, look,
\* the player is in the starting room, both rooms are visited, the second
\* look narrates what the first did, and nothing else of the state differs.
C9_RoundTrip ==
    trip.stage = 4 =>
        /\ currentRoomId = trip.room
        /\ InSeq(trip.room, visitedRooms)
        /\ InSeq(trip.via, visitedRooms)
        /\ narration = trip.out
        /\ inventory = trip.w.inventory
        /\ flags = trip.w.flags
        /\ itemLocations = trip.w.itemLocations
        /\ characterDialogueState = trip.w.characterDialogueState
        /\ visitedRooms = IF InSeq(trip.via, trip.w.visitedRooms)
                          THEN trip.w.visitedRooms
                          ELSE Append(trip.w.visitedRooms, trip.via)

\* look, go east, go west, look from the bridge, the corridor new to the player
C9_Witness ==
    /\ trip.stage = 4
    /\ trip.room = S("bridge")
    /\ trip.via = S("corridor")
    /\ ~InSeq(S("corridor"), trip.w.visitedRooms)

\* The names the parser's header comment and the README give for one canonical
\* verb: "get", "grab" and "pick up" for take.
DocumentedSynonyms ==
    << << <<S("get")>>, S("take") >>,
       << <<S("grab")>>, S("take") >>,
       << <<S("pick"), S("up")>>, S("take") >> >>

IsPrefix(p, xs) == Len(p) <= Len(xs) /\ SubSeq(xs, 1, Len(p)) = p

\* a text without case and articles, its documented synonym replaced
Canonical(text) ==
    LET words == removeArticles(tokenize(normalizeInput(text)))
        named == FirstIndex(DocumentedSynonyms, LAMBDA e : IsPrefix(e[1], words))
    IN IF named = 0 THEN words
       ELSE <<DocumentedSynonyms[named][2]>>
            \o SubSeq(words, Len(DocumentedSynonyms[named][1]) + 1, Len(words))

SameIntent ==
    { pair \in Inputs \X Inputs :
        pair[1] # pair[2] /\ Canonical(pair[1]) = Canonical(pair[2]) }

\* C10: from the same state, two inputs that differ only in letter case, in
\* articles or in the synonym used for the verb give the same state and the
\* same narration.
C10_SynonymTransparency ==
    phase = "play" =>
        \A pair \in SameIntent :
            LET one == execute(World, Parsed[pair[1]])
                other == execute(World, Parsed[pair[2]])
            IN one.w = other.w /\ one.out = other.out /\ one.threw = other.threw


----------------------------------------------------------------------------
\* every direction word of isDirection, as typed alone and after "go"
BareAndGo ==
    [k \in DOMAIN validDirections |->
        [bare |-> parse(validDirections[k]),
         go   |-> parse(S("go ") \o validDirections[k])]]

\* C11: for every direction word d, full or abbreviated, the inputs "d" and
\* "go d" give, from the same state, the same state and the same narration;
\* the bare word is followed as a direction and never looked up as a verb of
\* the handler table.
C11_BareDirectionIsGo ==
    phase = "play" =>
        \A k \in DOMAIN validDirections :
            LET one == execute(World, BareAndGo[k].bare)
                other == execute(World, BareAndGo[k].go)
            IN /\ one = other
               /\ ~one.threw
               /\ Route(BareAndGo[k].bare) = <<"direction">>
               /\ one = handleGo(World, [BareAndGo[k].bare EXCEPT
                                            !.noun = BareAndGo[k].bare.verb])

\* the player has just typed "e" on the bridge and stands in the corridor
C11_Witness ==
    /\ lastInput = S("e")
    /\ Went(narration)
    /\ currentRoomId = S("corridor")

\* the command asks for an examination: examine, or look with a noun
Examines(command) ==
    /\ Truthy(command.verb) /\ IsString(command.verb)
    /\ ~isDirection(command.verb)
    /\ \/ PlainGet(commandHandlers, command.verb) = <<"handleExamine">>
       \/ /\ PlainGet(commandHandlers, command.verb) = <<"handleLook">>
          /\ Truthy(command.noun)

\* C12: an examine command, "look <noun>" included, changes nothing of the
\* world state, and the same command executed again right after it sends the
\* same lines to the renderer.
C12_ExamineReadOnly ==
    [][ (phase = "play" /\ Examines(Parsed[lastInput'])) =>
            /\ World' = World
            /\ LET again == execute(World', Parsed[lastInput'])
               IN again.out = narration' /\ again.w = World' /\ again.threw = threw'
      ]_vars

\* the console has just been examined with the power on: its description
\* carries the state description of the flag
C12_Witness ==
    /\ lastInput = S("examine console")
    /\ Truthy(getFlag(World, S("powerOn")))
    /\ Len(narration) = 1 /\ narration[1].kind = "message"
    /\ ~threw

\* the command is a use of a carried item that has use-actions: the index of
\* the item in content.items, 0 when the command is none
UsedItem(command) ==
    IF /\ Truthy(command.verb) /\ IsString(command.verb)
       /\ ~isDirection(command.verb)
       /\ PlainGet(commandHandlers, command.verb) = <<"handleUse">>
       /\ Truthy(command.noun) /\ IsString(command.noun)
    THEN Let(findItemInInventory(World, toLowerCase(command.noun)), LAMBDA item :
         IF item # 0 /\ Len(content.items[item].useActions) > 0 THEN item ELSE 0)
    ELSE 0

\* the use-actions of an item that require no target
Defaults(item) ==
    { k \in DOMAIN item.useActions : ~Truthy(item.useActions[k].target) }

Least(ks) == CHOOSE k \in ks : \A other \in ks : k <= other

\* C13: "use <item>" without a target, for a carried item with use-actions,
\* has the effects and the narration of the first use-action of the list
\* that requires no target, whatever precedes it; when there is none it
\* sends one error line asking for a target and changes nothing.
C13_DefaultUseAction ==
    [][ \A used \in { UsedItem(Parsed[lastInput']) } :
        (phase = "play" /\ used # 0 /\ ~Truthy(Parsed[lastInput'].target)) =>
            \A item \in { content.items[used] } :
            IF Defaults(item) = {}
            THEN /\ World' = World
                 /\ Len(narration') = 1 /\ narration'[1].kind = "error"
                 /\ narration'[1].args = <<item.name, toLowerCase(item.name)>>
            ELSE \A first \in { Least(Defaults(item)) } :
                 \A done \in { executeUseAction(World, item, item.useActions[first]) } :
                    /\ World' = done.w
                    /\ narration' = done.out
                    /\ \A k \in DOMAIN item.useActions :
                          (Truthy(item.useActions[k].target) /\ narration' # <<>>)
                              => narration'[1].args # <<item.useActions[k].message>>
      ]_vars

\* "use keycard" has just run the second action of the keycard, its first
\* without target, leaving the power off
C13_Witness ==
    /\ lastInput = S("use keycard")
    /\ hasItem(World, S("keycard"))
    /\ narration = << Line("success", "${action.message}", <<S("You wave the keycard.")>>) >>
    /\ ~Truthy(getFlag(World, S("powerOn")))

\* "use token" has just asked for a target: the token has targeted actions only
C13_WitnessPrompt ==
    /\ lastInput = S("use token")
    /\ hasItem(World, S("token"))
    /\ Len(narration) = 1 /\ narration[1].kind = "error"

Defined(table, id) == \E k \in DOMAIN table : table[k].id = id

\* every identifier an event (use-action, onTake, dialogue node) gives, and
\* every item a locked exit requires, names an item of the item table
EventReferencesExist(c) ==
    /\ \A i \in DOMAIN c.items :
          /\ Truthy(c.items[i].onTake.giveItem)
                => Defined(c.items, c.items[i].onTake.giveItem)
          /\ \A a \in DOMAIN c.items[i].useActions :
                Truthy(c.items[i].useActions[a].giveItem)
                    => Defined(c.items, c.items[i].useActions[a].giveItem)
    /\ \A ch \in DOMAIN c.characters : \A n \in DOMAIN c.characters[ch].dialogue :
          Truthy(c.characters[ch].dialogue[n].giveItem)
              => Defined(c.items, c.characters[ch].dialogue[n].giveItem)
    /\ \A r \in DOMAIN c.rooms : \A l \in DOMAIN c.rooms[r].lockedExits :
          Truthy(c.rooms[r].lockedExits[l][2].requiresItem)
              => Defined(c.items, c.rooms[r].lockedExits[l][2].requiresItem)

\* every exit leads to a room of the table and every room holds only items
\* and characters of the tables
RoomReferencesExist(c) ==
    \A r \in DOMAIN c.rooms :
        /\ \A e \in DOMAIN c.rooms[r].exits : Defined(c.rooms, c.rooms[r].exits[e][2])
        /\ \A k \in DOMAIN c.rooms[r].items : Defined(c.items, c.rooms[r].items[k])
        /\ \A k \in DOMAIN c.rooms[r].characters :
              Defined(c.characters, c.rooms[r].characters[k])

\* C14: content with an exit target, an item or a character identifier that
\* its table does not define never gets past loading: once the game state is
\* constructed every reference of the content resolves, and the inventory
\* holds only items of the item table.
C14_NoDanglingReference ==
    phase \in {"boot", "play"} =>
        /\ RoomReferencesExist(content)
        /\ EventReferencesExist(content)
        /\ \A k \in DOMAIN inventory : Defined(content.items, inventory[k])

\* the references validateContentReferences does follow are closed once the
\* game runs
C14_RoomReferencesChecked ==
    phase \in {"boot", "play"} => RoomReferencesExist(content)

\* C15: every executed intent ends in at least one narration line, and the
\* outcome is one of three: a success narration (with the state mutation, if
\* the command has one), a failure narration that leaves the state as it
\* was, or the narration that the verb is not recognized, which also leaves
\* the state as it was.
C15_OutcomeNarrated ==
    [][ phase = "play" =>
            /\ narration' # <<>>
            /\ ~threw'
            /\ Failed(narration') => World' = World
            /\ Route(Parsed[lastInput']) = <<"unknown">> =>
                  /\ World' = World
                  /\ Len(narration') = 1 /\ narration'[1].kind = "error"
      ]_vars

Carried(id) == \E k \in DOMAIN inventory : inventory[k] = id
FlagSet(flag) == \E k \in DOMAIN flags : flags[k][1] = flag /\ Truthy(flags[k][2])

\* the parts of a locked-exit entry that are specified are all met
Passable(lock) ==
    /\ ~Truthy(lock.requiresItem) \/ Carried(lock.requiresItem)
    /\ ~Truthy(lock.requiresFlag) \/ FlagSet(lock.requiresFlag)

\* C16: a move through an exit that has a locked-exit entry goes through iff
\* the required item, if one is specified, is carried and the required flag,
\* if one is specified, is truthy; otherwise the player stays, nothing
\* changes, and the one line sent is the warning with the entry's message,
\* or with the generic text naming the direction when it has none.
C16_LockIsConjunction ==
    [][ \A d \in { Heading(Parsed[lastInput']) } :
        (/\ phase = "play" /\ d # <<>>
         /\ HasOwn(HereRoom.exits, d) /\ HasOwn(HereRoom.lockedExits, d)) =>
            \A lock \in { OwnGet(HereRoom.lockedExits, d) } :
            IF Passable(lock)
            THEN /\ currentRoomId' = OwnGet(HereRoom.exits, d)
                 /\ Went(narration')
                 /\ ~Warned(narration')
            ELSE /\ World' = World
                 /\ narration' =
                      << IF Truthy(lock.message)
                         THEN Line("warning", "${lockedInfo.message}", <<lock.message>>)
                         ELSE Line("warning", "The way ${direction} is locked.", <<d>>) >>
      ]_vars

\* in the vault with the keycard and without power, "go down" has just been
\* refused with the generic text: the exit down requires the flag only
C16_Witness ==
    /\ lastInput = S("go down")
    /\ currentRoomId = S("vault")
    /\ Carried(S("keycard")) /\ ~FlagSet(S("powerOn"))
    /\ narration = << Line("warning", "The way ${direction} is locked.", <<S("down")>>) >>

\* the pointer stored for a character: UNDEFINED when none is stored
Pointer(w, who) ==
    IF \E k \in DOMAIN w.characterDialogueState : w.characterDialogueState[k][1] = who.id
    THEN LET k == CHOOSE k \in DOMAIN w.characterDialogueState :
                      w.characterDialogueState[k][1] = who.id
         IN w.characterDialogueState[k][2]
    ELSE UNDEFINED

\* the nodes of a character a pointer names
Named(who, pointer) == { n \in DOMAIN who.dialogue : who.dialogue[n].id = pointer }

C17_WitnessUnchanged ==
    /\ lastInput = S("talk troi")
    /\ narration # <<>> /\ narration[1].kind = "dialogue"
    /\ Pointer(World, content.characters[CharacterIndex(S("troi"))]) = UNDEFINED

\* C18: when the pointer stored for a character names no node of its
\* dialogue list, a talk to the character raises no error and sends no error
\* line: it plays the first node of the list, with the flag and the item of
\* that node, and stores the pointer the first node leads to.
C18_StalePointerRestarts ==
    [][ \A c \in DOMAIN content.characters :
        \A who \in { content.characters[c] } :
        \A stored \in { Pointer(World, who) } :
          (/\ phase = "play"
           /\ TalkTo(World, Parsed[lastInput'], c)
           /\ Len(who.dialogue) > 0
           /\ Truthy(stored) /\ Named(who, stored) = {}) =>
             \A first \in { who.dialogue[1] } :
               /\ ~threw' /\ ~Failed(narration')
               /\ narration' # <<>>
               /\ narration'[1] = Line("dialogue", "${speaker}: ${text}",
                                       <<who.name, first.text>>)
               /\ Truthy(first.setFlag) => Truthy(getFlag(World', first.setFlag))
               /\ Truthy(first.giveItem) => hasItem(World', first.giveItem)
               /\ Pointer(World', who) =
                     IF Truthy(first.nextNode) THEN first.nextNode
                     ELSE IF Truthy(first.loop) THEN first.loop
                     ELSE stored
      ]_vars

\* data has played "intro" again after "more": the pointer "gone" that "more"
\* stored names no node, and the talk that found it went back to the start
C18_Witness ==
    /\ lastInput = S("talk data")
    /\ FlagSet(S("briefed"))
    /\ narration = << Line("dialogue", "${speaker}: ${text}", <<S("Data"), S("Greetings.")>>) >>
    /\ Pointer(World, content.characters[CharacterIndex(S("data"))]) = S("more")

\* entity resolution: the identifier names an item or a character whose
\* name, identifier or alias is the searched name, or whose name contains it
Resolves(id, searched) ==
    \E table \in {content.items, content.characters} :
    \E k \in DOMAIN table :
        /\ table[k].id = id
        /\ \/ toLowerCase(table[k].name) = searched
           \/ toLowerCase(table[k].id) = searched
           \/ includes(toLowerCase(table[k].name), searched)
           \/ \E a \in DOMAIN table[k].aliases : toLowerCase(table[k].aliases[a]) = searched

\* the use-actions of an item that the given target selects
Matching(item, target) ==
    { k \in DOMAIN item.useActions :
        /\ Truthy(item.useActions[k].target)
        /\ \/ toLowerCase(item.useActions[k].target) = toLowerCase(target)
           \/ Resolves(item.useActions[k].target, toLowerCase(target)) }

\* C19: "use <item> on <target>", for a carried item with use-actions, has
\* the effects and the narration of the first use-action of the list whose
\* target is the given one up to letter case or resolves to it as an entity;
\* when there is none the state is unchanged and the one line sent is the
\* plain message that nothing happens, no error and no warning.
C19_TargetedUse ==
    [][ \A used \in { UsedItem(Parsed[lastInput']) } :
        \A target \in { Parsed[lastInput'].target } :
        (phase = "play" /\ used # 0 /\ Truthy(target)) =>
            \A item \in { content.items[used] } :
            \A matching \in { Matching(item, target) } :
            IF matching = {}
            THEN /\ World' = World
                 /\ narration' =
                      << Line("message",
                              "Nothing happens when you try to use the ${item.name} on ${command.target}.",
                              <<item.name, target>>) >>
                 /\ ~Failed(narration') /\ ~DontHave(narration')
            ELSE \A done \in { executeUseAction(World, item,
                                                item.useActions[Least(matching)]) } :
                    /\ World' = done.w
                    /\ narration' = done.out
      ]_vars

\* "use keycard on con" has just run the keycard's action on the console:
\* "con" resolves to the console by its name
C19_Witness ==
    /\ lastInput = S("use keycard on con")
    /\ FlagSet(S("powerOn"))
    /\ narration # <<>>
    /\ narration[1].args = <<S("The console hums and dispenses a medkit.")>>

\* "use keycard on ghost" has just been answered that nothing happens
C19_WitnessNothing ==
    /\ lastInput = S("use keycard on ghost")
    /\ Carried(S("keycard"))
    /\ Len(narration) = 1 /\ narration[1].kind = "message"

\* the command is a talk: its verb leads to handleTalk
IsTalk(command) ==
    /\ Truthy(command.verb) /\ IsString(command.verb)
    /\ ~isDirection(command.verb)
    /\ PlainGet(commandHandlers, command.verb) = <<"handleTalk">>

\* the name a talk gives: its noun ("talk riker"), or its target when a
\* preposition comes first ("talk to riker"); UNDEFINED when it gives none
NamedInTalk(command) ==
    IF Truthy(command.noun) THEN command.noun
    ELSE IF Truthy(command.target) THEN command.target
    ELSE UNDEFINED

\* the characters of the current room the name resolves to, by index
PresentNamed(name) ==
    { c \in DOMAIN content.characters :
        /\ InSeq(content.characters[c].id, HereRoom.characters)
        /\ matchesName(content.characters[c], toLowerCase(name)) }

\* C20: a talk that names a character of the current room, as its noun or
\* after a preposition, runs the dialogue of that character; a talk that
\* names nobody gets the list of the characters present, or is told nobody
\* is here; a name that resolves to no character of the current room gets
\* an error and changes nothing.
C20_TalkResolvesNamed ==
    [][ \A command \in { Parsed[lastInput'] } :
        (phase = "play" /\ IsTalk(command)) =>
            \A name \in { NamedInTalk(command) } :
            IF ~Truthy(name)
            THEN /\ World' = World
                 /\ Len(narration') = 1 /\ narration'[1].kind = "error"
                 /\ narration'[1].text \in {"Talk to whom? You can see: ${charNames}",
                                            "There's no one here to talk to."}
            ELSE IF PresentNamed(name) = {}
            THEN /\ World' = World
                 /\ Len(narration') = 1 /\ narration'[1].kind = "error"
            ELSE \E c \in PresentNamed(name) :
                 \A done \in { runDialogue(World, content.characters[c]) } :
                    /\ World' = done.w
                    /\ narration' = done.out
      ]_vars

----------------------------------------------------------------------------
(* Take, drop, use of an item left in the room *)

\* the command takes an item that lies in the current room: the index of the
\* item in content.items, 0 when the command is none
TakenItem(command) ==
    IF /\ Truthy(command.verb) /\ IsString(command.verb)
       /\ ~isDirection(command.verb)
       /\ PlainGet(commandHandlers, command.verb) = <<"handleTake">>
       /\ Truthy(command.noun) /\ IsString(command.noun)
    THEN findItemInRoom(World, toLowerCase(command.noun))
    ELSE 0

LocationOf(locations, id) ==
    { locations[k][2] : k \in { n \in DOMAIN locations : locations[n][1] = id } }

Listed(locations, room) ==
    { locations[k][1] : k \in { n \in DOMAIN locations : locations[n][2] = room } }

\* the inventory once the item is picked up
PickUp(carried, id) ==
    IF \E k \in DOMAIN carried : carried[k] = id THEN carried ELSE Append(carried, id)

\* C21: taking a takeable item that lies in the current room appends it to
\* the inventory and records it as carried, so that the room no longer lists
\* it; the success line is sent first, and the item's on-acquire event comes
\* after it: its message if it has one, its flag set to true if it has one,
\* its further item picked up if it has one, each field on its own.
C21_TakeSuccess ==
    [][ \A taken \in { TakenItem(Parsed[lastInput']) } :
        (phase = "play" /\ taken # 0 /\ content.items[taken].takeable # FALSE) =>
            \A item \in { content.items[taken] } :
            \A event \in { item.onTake } :
                /\ ~threw'
                /\ inventory' = IF Truthy(event.giveItem)
                                THEN PickUp(Append(inventory, item.id), event.giveItem)
                                ELSE Append(inventory, item.id)
                /\ inventory'[Len(inventory) + 1] = item.id
                /\ LocationOf(itemLocations', item.id) = { S("inventory") }
                /\ item.id \notin Listed(itemLocations', currentRoomId)
                /\ Truthy(event.giveItem) =>
                       LocationOf(itemLocations', event.giveItem) = { S("inventory") }
                /\ \A k \in DOMAIN itemLocations' :
                       itemLocations'[k][1] \notin
                           ({item.id} \cup IF Truthy(event.giveItem)
                                          THEN {event.giveItem} ELSE {})
                       => k \in DOMAIN itemLocations /\ itemLocations'[k] = itemLocations[k]
                /\ narration'[1] = Line("success", "You pick up the ${item.name}.",
                                        <<item.name>>)
                /\ narration' = << narration'[1] >> \o
                       (IF Truthy(event.message)
                        THEN << Line("message", "${event.message}", <<event.message>>) >>
                        ELSE <<>>)
                /\ IF Truthy(event.setFlag)
                   THEN /\ \E k \in DOMAIN flags' : flags'[k] = <<event.setFlag, JS_TRUE>>
                        /\ \A k \in DOMAIN flags' : flags'[k][1] # event.setFlag =>
                               k \in DOMAIN flags /\ flags'[k] = flags[k]
                   ELSE flags' = flags
                /\ currentRoomId' = currentRoomId
                /\ visitedRooms' = visitedRooms
                /\ characterDialogueState' = characterDialogueState
      ]_vars

\* the medkit has been taken in the corridor: its event, which has no
\* message, has set the flag and handed over the token
C21_Witness ==
    /\ lastInput = S("take medkit") /\ ~threw
    /\ Len(narration) = 1 /\ narration[1].kind = "success"
    /\ Carried(S("medkit")) /\ Carried(S("token")) /\ FlagSet(S("foundMedkit"))

\* the command is a drop that names something
IsDrop(command) ==
    /\ Truthy(command.verb) /\ IsString(command.verb)
    /\ ~isDirection(command.verb)
    /\ PlainGet(commandHandlers, command.verb) = <<"handleDrop">>
    /\ Truthy(command.noun) /\ IsString(command.noun)

Without(carried, id) == SelectSeq(carried, LAMBDA x : x # id)

C22_WitnessInRoom ==
    /\ lastInput = S("drop keycard") /\ ~threw
    /\ narration # <<>> /\ narration[1].kind = "error"
    /\ LocationOf(itemLocations, S("keycard")) = { currentRoomId }

\* the command is a use that names something
IsUse(command) ==
    /\ Truthy(command.verb) /\ IsString(command.verb)
    /\ ~isDirection(command.verb)
    /\ PlainGet(commandHandlers, command.verb) = <<"handleUse">>
    /\ Truthy(command.noun) /\ IsString(command.noun)

\* C23: a use of a name that resolves to nothing carried and to an item of
\* the current room sends the one warning that tells the player to take that
\* item first, not the "don't have" error; no use-action runs and the state
\* is unchanged.
C23_TakeItFirst ==
    [][ (phase = "play" /\ IsUse(Parsed[lastInput'])) =>
        \A name \in { toLowerCase(Parsed[lastInput'].noun) } :
        \A roomItem \in { findItemInRoom(World, name) } :
        (findItemInInventory(World, name) = 0 /\ roomItem # 0) =>
            \A item \in { content.items[roomItem] } :
                /\ ~threw'
                /\ World' = World
                /\ justConsumed' = {}
                /\ narration' =
                     << Line("warning",
                             "You need to pick up the ${roomItem.name} first. Try \"take ${roomItem.name.toLowerCase()}\".",
                             <<item.name, toLowerCase(item.name)>>) >>
                /\ ~DontHave(narration')
      ]_vars

\* a use of the medkit that lies in the corridor
C23_Witness ==
    /\ lastInput = S("use medkit") /\ ~threw
    /\ ~Carried(S("medkit"))
    /\ LocationOf(itemLocations, S("medkit")) = { currentRoomId }
    /\ Len(narration) = 1 /\ narration[1].kind = "warning"

----------------------------------------------------------------------------
(* Resolution of names *)

\* the four tests of a search term against a candidate
ExactName(entity, term) == toLowerCase(entity.name) = term
ExactId(entity, term) == toLowerCase(entity.id) = term
InName(entity, term) == includes(toLowerCase(entity.name), term)
IsAlias(entity, term) ==
    \E k \in DOMAIN entity.aliases : toLowerCase(entity.aliases[k]) = term

\* the names the commands of the player search for
Terms ==
    { toLowerCase(Parsed[text].noun) :
        text \in { t \in Inputs : Truthy(Parsed[t].noun) /\ IsString(Parsed[t].noun) } }

\* the items of a scope, as indices of content.items
InScope(ids) ==
    { k \in DOMAIN content.items : \E n \in DOMAIN ids : ids[n] = content.items[k].id }

\* the item found in a scope is one that passes one of the four tests,
\* nothing is found only when no item of the scope passes one, and an item
\* whose name is the term is found before one that only contains the term
\* or has it as an alias
ResolvedByPriority(ids, found, term) ==
    /\ found # 0 =>
          /\ found \in InScope(ids)
          /\ \/ ExactName(content.items[found], term)
             \/ ExactId(content.items[found], term)
             \/ InName(content.items[found], term)
             \/ IsAlias(content.items[found], term)
    /\ found = 0 =>
          \A k \in InScope(ids) :
              ~ \/ ExactName(content.items[k], term)
                \/ ExactId(content.items[k], term)
                \/ InName(content.items[k], term)
                \/ IsAlias(content.items[k], term)
    /\ (\E k \in InScope(ids) : ExactName(content.items[k], term)) =>
          found # 0 /\ ExactName(content.items[found], term)

\* C24: an item matches a search term iff the term is its name or its id,
\* case ignored, or is contained in its name, or is one of its aliases; of
\* the items carried, and of the items of the current room, the one found is
\* one whose name is the term when there is such an item, before any that
\* matches by containment or alias only.
C24_ExactNameFirst ==
    phase = "play" =>
        \A term \in Terms :
            /\ ResolvedByPriority(inventory, findItemInInventory(World, term), term)
            /\ ResolvedByPriority(getItemsInRoom(World, currentRoomId),
                                  findItemInRoom(World, term), term)

\* the same without the order of preference: the item found passes one of
\* the tests, and nothing is found only when no item of the scope passes one
C24_MatchIsAnyTest ==
    phase = "play" =>
        \A term \in Terms :
        \A scope \in { <<inventory, findItemInInventory(World, term)>>,
                       <<getItemsInRoom(World, currentRoomId), findItemInRoom(World, term)>> } :
            /\ scope[2] # 0 =>
                  /\ scope[2] \in InScope(scope[1])
                  /\ \/ ExactName(content.items[scope[2]], term)
                     \/ ExactId(content.items[scope[2]], term)
                     \/ InName(content.items[scope[2]], term)
                     \/ IsAlias(content.items[scope[2]], term)
            /\ scope[2] = 0 =>
                  \A k \in InScope(scope[1]) :
                      ~ \/ ExactName(content.items[k], term)
                        \/ ExactId(content.items[k], term)
                        \/ InName(content.items[k], term)
                        \/ IsAlias(content.items[k], term)

\* the text shown for an item: its description, then one line for each entry
\* of its state table whose flag is set, in the order of the table
Overlaid(item) ==
    join(<<item.description>> \o
         [k \in DOMAIN SelectSeq(item.stateDescriptions, LAMBDA e : FlagSet(e[1])) |->
             SelectSeq(item.stateDescriptions, LAMBDA e : FlagSet(e[1]))[k][2]],
         <<"\n">>)

\* the named features of the current room that carry the name
FeaturesNamed(name) ==
    { k \in DOMAIN HereRoom.features : HereRoom.features[k][1] = name }

\* C25: examine looks for its noun among the carried items, then the items
\* of the current room, then the characters of the room, then the named
\* features of the room, and shows the description of the first it finds; the
\* not-found error is sent exactly when all four find nothing. The text of an
\* item is its description followed by one line for each entry of its state
\* table whose flag is truthy, in the order of the table.
C25_ExamineScopeOrder ==
    [][ (phase = "play" /\ Examines(Parsed[lastInput'])
            /\ IsString(Parsed[lastInput'].noun)) =>
        \A name \in { toLowerCase(Parsed[lastInput'].noun) } :
        \A carried \in { findItemInInventory(World, name) } :
        \A roomItem \in { findItemInRoom(World, name) } :
        \A character \in { findCharacterInRoom(World, name) } :
            /\ ~threw'
            /\ Len(narration') = 1
            /\ narration'[1] =
                 IF carried # 0
                 THEN Line("message", "${description}", <<Overlaid(content.items[carried])>>)
                 ELSE IF roomItem # 0
                 THEN Line("message", "${description}", <<Overlaid(content.items[roomItem])>>)
                 ELSE IF character # 0
                 THEN Line("message", "${character.description}",
                           <<content.characters[character].description>>)
                 ELSE IF FeaturesNamed(name) # {}
                 THEN Line("message", "${feature}",
                           <<HereRoom.features[CHOOSE k \in FeaturesNamed(name) : TRUE][2]>>)
                 ELSE Line("error", "You don't see any \"${command.noun}\" here.",
                           <<Parsed[lastInput'].noun>>)
      ]_vars

----------------------------------------------------------------------------
(* The parser *)

PrepositionWords ==
    { S("on"), S("with"), S("to"), S("in"), S("at"), S("from"), S("into") }

MovementVerbs == { S("go"), S("walk"), S("move") }

\* the words joined by single spaces, null when there is none
Phrase(words) == IF words = <<>> THEN NULL ELSE join(words, S(" "))

\* C26: for a verb other than go, walk and move, the words after the verb
\* are split at the leftmost preposition: the noun is the words before it
\* (null if none), the preposition is that word, the target is all the words
\* after it (null if none), later prepositions included; with no preposition
\* the words are the noun, and preposition and target are null.
C26_PrepositionSplit ==
    (phase = "play" /\ Parsed[lastInput].tokens # <<>>
        /\ Parsed[lastInput].verb \notin MovementVerbs) =>
        \A command \in { Parsed[lastInput] } :
        \A rest \in { Tail(command.tokens) } :
        \A at \in { { k \in DOMAIN rest : rest[k] \in PrepositionWords } } :
            IF at = {}
            THEN /\ command.noun = Phrase(rest)
                 /\ command.preposition = NULL
                 /\ command.target = NULL
            ELSE \A first \in { Least(at) } :
                 /\ command.noun = Phrase(SubSeq(rest, 1, first - 1))
                 /\ command.preposition = rest[first]
                 /\ command.target = Phrase(SubSeq(rest, first + 1, Len(rest)))

\* a command with two prepositions has been parsed: the second one is part
\* of the target
C26_Witness ==
    /\ phase = "play"
    /\ lastInput = S("use keycard on console in vault")
    /\ Parsed[lastInput].noun = S("keycard")
    /\ Parsed[lastInput].preposition = S("on")
    /\ Parsed[lastInput].target = S("console in vault")

\* no word is left of the text once it is normalized and its articles removed
NoWordsLeft(text) ==
    \A k \in DOMAIN tokenize(normalizeInput(text)) :
        tokenize(normalizeInput(text))[k] \in { S("the"), S("a"), S("an") }

BlankTexts == { text \in Inputs : NoWordsLeft(text) }

\* C27: a text of which no word is left after normalization and the removal
\* of articles (empty, blank, articles only) parses without error to the
\* empty command, verb "" and noun, preposition and target null; executing it
\* sends the prompt for a command and changes nothing of the world state.
C27_EmptyIntent ==
    [][ (phase = "play" /\ lastInput' \in BlankTexts) =>
            /\ Parsed[lastInput'].verb = <<>>
            /\ Parsed[lastInput'].noun = NULL
            /\ Parsed[lastInput'].preposition = NULL
            /\ Parsed[lastInput'].target = NULL
            /\ ~threw'
            /\ World' = World
            /\ narration' =
                 << Line("message",
                         "What would you like to do? Type \"help\" for available commands.",
                         <<>>) >>
      ]_vars

\* a text made of articles and blanks has been executed after the keycard
\* was taken
C27_Witness ==
    /\ lastInput = S(" The  a") /\ ~threw
    /\ Carried(S("keycard"))
    /\ Len(narration) = 1 /\ narration[1].kind = "message"

----------------------------------------------------------------------------
(* Saved games *)

\* the same keys with the same values
SameEntries(a, b) ==
    { a[k] : k \in DOMAIN a } = { b[k] : k \in DOMAIN b }

\* the restored state holds the room, the inventory in its order, the flags,
\* the visited rooms, the item locations and the dialogue pointers of the
\* state it was saved from
C28_FieldsReproduced ==
    restored # NoSave =>
        /\ restored.currentRoomId = currentRoomId
        /\ restored.inventory = inventory
        /\ SameEntries(restored.flags, flags)
        /\ SameEntries(restored.visitedRooms, visitedRooms)
        /\ SameEntries(restored.itemLocations, itemLocations)
        /\ SameEntries(restored.characterDialogueState, characterDialogueState)

\* C28: a fresh GameState restored with fromJSON from the toJSON of a
\* reachable state has the current room, the inventory sequence, the flags,
\* the visited rooms, the item locations and the dialogue pointers of that
\* state, and every command sends the same lines and fails or not on the
\* restored state as on the original.
C28_RoundTrip ==
    restored # NoSave =>
        /\ C28_FieldsReproduced
        /\ \A text \in Inputs :
              /\ execute(restored, Parsed[text]).out = execute(World, Parsed[text]).out
              /\ execute(restored, Parsed[text]).threw
                     = execute(World, Parsed[text]).threw

----------------------------------------------------------------------------
(* The command history *)

\* C29: the history index is -1 or the index of an entry of the history; an
\* arrow key pressed on a history that is not empty brings an entry of the
\* history or the saved fresh input into the input field, and pressed on an
\* empty history it brings the empty string and leaves the index at -1.
C29_CursorInRange ==
    /\ historyIndex = -1 \/ historyIndex \in 0..(Len(commandHistory) - 1)
    /\ (pressed # 0 /\ commandHistory # <<>>) =>
          \/ \E k \in DOMAIN commandHistory : inputValue = commandHistory[k]
          \/ inputValue = tempInput
    /\ (pressed # 0 /\ commandHistory = <<>>) =>
          inputValue = <<>> /\ historyIndex = -1

\* an arrow key has brought the second of three entries into the input field
C29_Witness ==
    /\ pressed = -1
    /\ Len(commandHistory) = 3
    /\ historyIndex = 1
    /\ inputValue = commandHistory[2]

\* an arrow key pressed before any command was added to the history
C29_WitnessEmpty ==
    /\ pressed # 0
    /\ commandHistory = <<>>
    /\ inputValue = <<>>

\* the entry of the history at an index that counts from 0
Entry(index) == commandHistory[index + 1]

\* C30: navigateHistory(-1) moves to older commands and navigateHistory(1) to
\* newer ones. A step back from the fresh input brings the most recent
\* command, a step back on the oldest command stays on it, a step forward
\* from the newest command returns to the fresh input with the index at -1,
\* a step forward never lands on a command older than the one the index was
\* on, and a step forward from the fresh input stays on the fresh input.
C30_Direction ==
    [][ (pressed' # 0 /\ commandHistory # <<>>) =>
        \A newest \in { Len(commandHistory) - 1 } :
        /\ commandHistory' = commandHistory
        /\ pressed' = -1 =>
              /\ historyIndex = -1 =>
                    historyIndex' = newest /\ inputValue' = Entry(newest)
              /\ historyIndex = 0 =>
                    historyIndex' = 0 /\ inputValue' = Entry(0)
              /\ historyIndex > 0 =>
                    /\ historyIndex' = historyIndex - 1
                    /\ inputValue' = Entry(historyIndex - 1)
        /\ pressed' = 1 =>
              /\ historyIndex = newest =>
                    historyIndex' = -1 /\ inputValue' = tempInput
              /\ historyIndex \in 0..(newest - 1) =>
                    /\ historyIndex' = historyIndex + 1
                    /\ inputValue' = Entry(historyIndex + 1)
              /\ historyIndex' = -1 \/ historyIndex' >= historyIndex
              /\ historyIndex = -1 =>
                    historyIndex' = -1 /\ inputValue' = tempInput
      ]_vars

\* the same without the step forward from the fresh input
C30_DirectionWhileNavigating ==
    [][ (pressed' # 0 /\ commandHistory # <<>>
            /\ ~(pressed' = 1 /\ historyIndex = -1)) =>
        \A newest \in { Len(commandHistory) - 1 } :
        /\ commandHistory' = commandHistory
        /\ pressed' = -1 =>
              /\ historyIndex = -1 =>
                    historyIndex' = newest /\ inputValue' = Entry(newest)
              /\ historyIndex = 0 =>
                    historyIndex' = 0 /\ inputValue' = Entry(0)
              /\ historyIndex > 0 =>
                    /\ historyIndex' = historyIndex - 1
                    /\ inputValue' = Entry(historyIndex - 1)
        /\ pressed' = 1 =>
              /\ historyIndex = newest =>
                    historyIndex' = -1 /\ inputValue' = tempInput
              /\ historyIndex \in 0..(newest - 1) =>
                    /\ historyIndex' = historyIndex + 1
                    /\ inputValue' = Entry(historyIndex + 1)
              /\ historyIndex' = -1 \/ historyIndex' >= historyIndex
      ]_vars

----------------------------------------------------------------------------
(* The entries of the history *)

Blank(text) == trim(text) = <<>>

\* no entry is blank and no entry equals the one before it
CleanHistory(entries) ==
    /\ \A k \in DOMAIN entries : ~Blank(entries[k])
    /\ \A k \in DOMAIN entries : k > 1 => entries[k] # entries[k - 1]

\* C31 as stated: every addToHistory call with a command that is not the
\* empty string leaves the history without blank and without adjacent equal
\* entries and the navigation index at -1.
C31_AsStated ==
    [][ pressed' = 0 =>
            /\ CleanHistory(commandHistory')
            /\ lastInput' # <<>> => historyIndex' = -1
      ]_vars

\* C31: after any sequence of addToHistory calls the history holds no empty
\* or whitespace-only entry and no two adjacent entries are equal, and every
\* addToHistory call with a command that is neither empty nor whitespace
\* only makes the command the last entry and resets the navigation index to
\* -1.
C31_HistoryContents ==
    [][ pressed' = 0 =>
            /\ CleanHistory(commandHistory')
            /\ ~Blank(lastInput') =>
                  /\ historyIndex' = -1
                  /\ commandHistory' # <<>>
                  /\ commandHistory'[Len(commandHistory')] = lastInput'
                  /\ Len(commandHistory') \in { Len(commandHistory), Len(commandHistory) + 1 }
      ]_vars

\* the command that is already the last entry has been added while the
\* index was on an older entry: the history is as long as before
C31_Witness ==
    /\ pressed = 0
    /\ Len(commandHistory) = 2
    /\ lastInput = commandHistory[2]
    /\ historyIndex = -1
    /\ inputValue = commandHistory[1]

----------------------------------------------------------------------------
(* Inventory and locations *)

\* C32: the inventory holds no identifier twice, an identifier is in the
\* inventory iff its location record is 'inventory', and every item has at
\* most one location record, so that no item is listed both in a room and in
\* the inventory.
C32_InventoryAgrees ==
    /\ \A j, k \in DOMAIN inventory : inventory[j] = inventory[k] => j = k
    /\ \A j, k \in DOMAIN itemLocations :
           itemLocations[j][1] = itemLocations[k][1] => j = k
    /\ \A k \in DOMAIN inventory :
           LocationOf(itemLocations, inventory[k]) = { S("inventory") }
    /\ \A k \in DOMAIN itemLocations :
           itemLocations[k][2] = S("inventory") => Carried(itemLocations[k][1])
    /\ \A r \in DOMAIN content.rooms : \A k \in DOMAIN inventory :
           inventory[k] \notin Listed(itemLocations, content.rooms[r].id)

\* one item carried, one dropped in another room than its own, one consumed
C32_Witness ==
    /\ Carried(S("token"))
    /\ LocationOf(itemLocations, S("medkit")) = { S("nowhere") }
    /\ LocationOf(itemLocations, S("keycard")) = { S("corridor") }
    /\ ~Carried(S("keycard")) /\ ~Carried(S("medkit"))

----------------------------------------------------------------------------
(* Locks, flags and grants over time *)

\* C33: a move through an exit whose locked-exit entry requires an item is
\* refused with the lock message, and the player stays, whenever the item is
\* not carried, also when the player has passed that exit before; an exit of
\* the current room that has no locked-exit entry in this room is passed
\* whatever the locks of other rooms and directions are.
C33_LocksReevaluated ==
    [][ \A d \in { Heading(Parsed[lastInput']) } :
        (phase = "play" /\ d # <<>> /\ HasOwn(HereRoom.exits, d)) =>
            IF HasOwn(HereRoom.lockedExits, d)
            THEN \A lock \in { OwnGet(HereRoom.lockedExits, d) } :
                 (Truthy(lock.requiresItem) /\ ~Carried(lock.requiresItem)) =>
                     /\ World' = World
                     /\ Len(narration') = 1
                     /\ narration'[1].kind = "warning"
                     /\ narration'[1].args \in { <<lock.message>>, <<d>> }
            ELSE /\ currentRoomId' = OwnGet(HereRoom.exits, d)
                 /\ Went(narration')
                 /\ ~Warned(narration')
      ]_vars

\* back in the corridor without the keycard, which is not carried any more,
\* the way north to the vault, passed before, has just been refused
C33_Witness ==
    /\ lastInput = S("n")
    /\ currentRoomId = S("corridor")
    /\ InSeq(S("vault"), visitedRooms)
    /\ ~Carried(S("keycard"))
    /\ Len(narration) = 1 /\ narration[1].kind = "warning"

\* the locked-exit entries of the content that require a flag and no item
FlagOnlyLocks ==
    { lock \in UNION { { Rooms[r].lockedExits[k][2] : k \in DOMAIN Rooms[r].lockedExits } :
                       r \in DOMAIN Rooms } :
        Truthy(lock.requiresFlag) /\ ~Truthy(lock.requiresItem) }

\* C34: in every step, every flag that was truthy is truthy afterwards and
\* every value stored in the flags is true; an exit locked only by a flag
\* that was passable is passable afterwards; an objective whose flag was set
\* has it set afterwards.
C34_FlagsMonotone ==
    [][ /\ \A k \in DOMAIN flags :
              Truthy(flags[k][2]) => Truthy(getFlag(World', flags[k][1]))
        /\ \A k \in DOMAIN flags' : flags'[k][2] = JS_TRUE
        /\ \A lock \in FlagOnlyLocks :
              checkUnlockCondition(World, lock) => checkUnlockCondition(World', lock)
        /\ \A k \in DOMAIN content.config.objectives :
              Truthy(getFlag(World, content.config.objectives[k]))
                  => Truthy(getFlag(World', content.config.objectives[k]))
      ]_vars

\* the power is on, the medkit has been used, the game has been completed in
\* an earlier step, the exit that only the power flag locks is
\* passable, and one more command has run
C34_Witness ==
    /\ FlagSet(S("powerOn")) /\ FlagSet(S("healed")) /\ FlagSet(S("gameCompleted"))
    /\ \E lock \in FlagOnlyLocks : checkUnlockCondition(World, lock)
    /\ victories = 1 /\ ~Victory(narration)
    /\ lastInput = S("look")

\* the items a line of narration tells to have been granted: the item a
\* use-action or a dialogue node names, the further item of the on-acquire
\* event of an item picked up
GrantedBy(line) ==
    IF line.text = "You obtained: ${givenItem.name}"
    THEN { content.items[n].id :
             n \in { i \in DOMAIN content.items : content.items[i].name = line.args[1] } }
    ELSE IF line.text = "${character.name} gives you: ${item.name}"
    THEN { content.items[n].id :
             n \in { i \in DOMAIN content.items : content.items[i].name = line.args[2] } }
    ELSE IF line.text = "You pick up the ${item.name}."
    THEN { content.items[n].onTake.giveItem :
             n \in { i \in DOMAIN content.items :
                       /\ content.items[i].name = line.args[1]
                       /\ Truthy(content.items[i].onTake.giveItem) } }
    ELSE {}

\* the item a line of narration tells to have been picked up
PickedUpBy(line) ==
    IF line.text = "You pick up the ${item.name}."
    THEN { content.items[n].id :
             n \in { i \in DOMAIN content.items : content.items[i].name = line.args[1] } }
    ELSE {}

\* C35: whenever a use-action, an on-acquire event or a dialogue node grants
\* an item, the item is carried afterwards and recorded as carried, wherever
\* it was before, in a room or nowhere; the inventory is the one before with
\* the item picked up appended, if one was, and then the granted item
\* appended unless it was already carried.
C35_GrantRelocates ==
    [][ \A k \in DOMAIN narration' : \A g \in GrantedBy(narration'[k]) :
          /\ InSeq(g, inventory')
          /\ LocationOf(itemLocations', g) = {S("inventory")}
          /\ justConsumed' = {} =>
               \E before \in { inventory } \cup
                             { Append(inventory, x) : x \in PickedUpBy(narration'[k]) } :
                   /\ PickedUpBy(narration'[k]) # {} => before # inventory
                   /\ inventory' = PickUp(before, g)
      ]_vars

\* Troi has handed out the token again after it had been spent
C35_Witness ==
    /\ lastInput = S("talk troi")
    /\ S("token") \in consumed
    /\ Carried(S("token"))
    /\ \E k \in DOMAIN narration : S("token") \in GrantedBy(narration[k])

\* the medkit has been picked up again and its event has granted the token
\* again after it had been spent
C35_WitnessRetaken ==
    /\ lastInput = S("take medkit")
    /\ S("token") \in consumed
    /\ Carried(S("token"))
    /\ \E k \in DOMAIN narration : S("token") \in GrantedBy(narration[k])

\* the console has dispensed the medkit again after it had been used up
C35_WitnessDispensed ==
    /\ lastInput = S("use keycard on console")
    /\ S("medkit") \in consumed
    /\ Carried(S("medkit"))
    /\ \E k \in DOMAIN narration : S("medkit") \in GrantedBy(narration[k])

\* C36: with an objective list that is present and empty, the first command,
\* the initial look, sends the victory line and records gameCompleted; with
\* no objective list no step sends a victory line or records gameCompleted;
\* and after every command a game whose objective list is present
\* and wholly satisfied is recorded as completed.
C36_EmptyObjectives ==
    [][ \A cfg \in { content.config } :
        /\ (phase = "boot" /\ cfg.hasObjectives /\ cfg.objectives = <<>>) =>
              /\ lastInput' = S("look")
              /\ Victory(narration')
              /\ victories' = 1
              /\ \E k \in DOMAIN flags' : flags'[k] = <<S("gameCompleted"), JS_TRUE>>
        /\ ~cfg.hasObjectives =>
              /\ ~Victory(narration')
              /\ victories' = 0
              /\ \A k \in DOMAIN flags' : flags'[k][1] # S("gameCompleted")
        /\ ( /\ cfg.hasObjectives
             /\ \A n \in DOMAIN cfg.objectives :
                  \E k \in DOMAIN flags' : flags'[k] = <<cfg.objectives[n], JS_TRUE>> ) =>
              \E k \in DOMAIN flags' : flags'[k] = <<S("gameCompleted"), JS_TRUE>>
      ]_vars

\* the game with the empty objective list right after the initial look
C36_Witness ==
    /\ content.config.hasObjectives /\ content.config.objectives = <<>>
    /\ phase = "play" /\ commandHistory = << S("look") >>
    /\ Victory(narration) /\ victories = 1
    /\ FlagSet(S("gameCompleted"))

\* the game with no objective list after the power has been switched on
C36_WitnessNoList ==
    /\ ~content.config.hasObjectives
    /\ FlagSet(S("powerOn"))
    /\ Len(commandHistory) >= 3
    /\ victories = 0

----------------------------------------------------------------------------
(* Targets, round trips and hidden items *)

\* the places an item can be recorded at
Places == { Rooms[r].id : r \in DOMAIN Rooms } \cup { S("nowhere") }

\* the texts that are use commands with a target
TargetedUses ==
    { text \in StockedInputs : Truthy(ParsedStocked[text].target) }

\* the world seen from any room, with any one of the items the target names
\* that is not carried recorded at any place
Elsewhere(command) ==
    { [World EXCEPT !.currentRoomId = Rooms[r].id] : r \in DOMAIN Rooms }
    \cup
    { [World EXCEPT !.currentRoomId = Rooms[r].id,
                    !.itemLocations = MapSet(@, content.items[t].id, place)] :
        r \in DOMAIN Rooms, place \in Places,
        t \in { n \in DOMAIN content.items :
                  /\ ~Carried(content.items[n].id)
                  /\ matchesName(content.items[n], toLowerCase(command.target)) } }

\* C37: a use command with a target, for a carried item that has use-actions,
\* sends the same lines and leaves the same inventory, flags, visited rooms
\* and dialogue pointers when it is executed in any other room and with the
\* item the target names recorded at any other place; the items it moves are
\* moved to the same places and the others stay where they are.
C37_TargetNotChecked ==
    [][ \A command \in { IF lastInput' \in TargetedUses
                         THEN ParsedStocked[lastInput'] ELSE parse(<<>>) } :
        (phase = "play" /\ lastInput' \in TargetedUses /\ UsedItem(command) # 0) =>
          \A there \in Elsewhere(command) :
              \A elsewhere \in { execute(there, command) } :
                /\ elsewhere.out = narration'
                /\ elsewhere.threw = threw'
                /\ elsewhere.consumed = justConsumed'
                /\ elsewhere.w.currentRoomId = there.currentRoomId
                /\ elsewhere.w.inventory = inventory'
                /\ elsewhere.w.flags = flags'
                /\ elsewhere.w.visitedRooms = visitedRooms'
                /\ elsewhere.w.characterDialogueState = characterDialogueState'
                /\ \A n \in DOMAIN content.items : \A id \in { content.items[n].id } :
                     LocationOf(elsewhere.w.itemLocations, id) =
                       IF LocationOf(itemLocations', id) # LocationOf(itemLocations, id)
                       THEN LocationOf(itemLocations', id)
                       ELSE LocationOf(there.itemLocations, id)
      ]_vars

\* in the corridor, away from the console, the keycard has just been used on
\* the console: the power is on and the medkit obtained
C37_Witness ==
    /\ lastInput = S("use keycard on console")
    /\ currentRoomId = S("corridor")
    /\ LocationOf(itemLocations, S("console")) = { S("bridge") }
    /\ FlagSet(S("powerOn"))
    /\ Carried(S("medkit"))
    /\ \E k \in DOMAIN narration : narration[k].text = "You obtained: ${givenItem.name}"

\* in the galley the token has just been shown to Troi, and is still carried
C37_WitnessCharacter ==
    /\ lastInput = S("use token on Troi")
    /\ Carried(S("token"))
    /\ \E k \in DOMAIN narration : narration[k].args = << S("Troi smiles.") >>

\* the step picks up an item that lies in the current room, can be taken and
\* has no on-acquire event
PlainTake(command) ==
    /\ phase = "play"
    /\ TakenItem(command) # 0
    /\ content.items[TakenItem(command)].takeable # FALSE
    /\ content.items[TakenItem(command)].onTake = NoEvent

\* the drop command for the noun of a take command
DropOf(command) == [command EXCEPT !.verb = S("drop")]

\* C38 as stated: after "take X" for such an item, "drop X" brings back the
\* world as it was before the take, the listing of the room included.
C38_AsStated ==
    [][ \A command \in { ParsedStocked[lastInput'] } :
        PlainTake(command) =>
          \A dropped \in { execute(World', DropOf(command)) } :
            /\ dropped.w = World
            /\ stateItemsInRoom(dropped.w, currentRoomId)
                 = stateItemsInRoom(World, currentRoomId)
      ]_vars

\* C38: after "take X" for a takeable item of the current room that has no
\* on-acquire event, "drop X", when X names the item just taken among the
\* items carried, brings back the world as it was before the take: room,
\* inventory, item locations, flags, visited rooms, dialogue pointers, and
\* the listing of the room in the same order.
C38_TakeDropRoundTrip ==
    [][ \A command \in { ParsedStocked[lastInput'] } :
        ( /\ PlainTake(command)
          /\ inventory'[FirstIndex(inventory', LAMBDA id :
                 matchesName(content.items[ItemIndex(id)], toLowerCase(command.noun)))]
               = content.items[TakenItem(command)].id ) =>
          \A dropped \in { execute(World', DropOf(command)) } :
            /\ dropped.w = World
            /\ dropped.out = << Line("success", "You drop the ${item.name}.",
                                     <<content.items[TakenItem(command)].name>>) >>
            /\ stateItemsInRoom(dropped.w, currentRoomId)
                 = stateItemsInRoom(World, currentRoomId)
      ]_vars

\* the card case, taken in the lounge, has just been dropped there again:
\* nothing is carried and the lounge lists it before the badge as at the start
C38_Witness ==
    /\ lastInput = S("drop card")
    /\ narration = << Line("success", "You drop the ${item.name}.", << S("Card Case") >>) >>
    /\ currentRoomId = S("lounge")
    /\ inventory = <<>>
    /\ stateItemsInRoom(World, S("lounge")) = << S("case"), S("badge") >>

\* the items marked invisible that lie in the room
HiddenIn(locations, room) ==
    { n \in DOMAIN content.items :
        /\ content.items[n].visible = FALSE
        /\ LocationOf(locations, content.items[n].id) = { room } }

\* the handler of the verb of a command
HandlerOf(command) ==
    IF Truthy(command.verb) /\ IsString(command.verb) /\ ~isDirection(command.verb)
    THEN PlainGet(commandHandlers, command.verb)
    ELSE UNDEFINED

\* C39: a room description names, in the order of the location records, the
\* items located in the room that are not marked invisible, and no other;
\* a take, examine or use command whose noun is the name of an invisible
\* item lying in the current room finds it: take picks it up, examine sends
\* its description and changes nothing, use sends the hint to pick it up
\* first and changes nothing.
C39_VisibleOnlyListings ==
    [][ /\ \A k \in DOMAIN narration' :
             narration'[k].kind = "room" =>
               narration'[k].args[3] =
                 join(ItemNames(SelectSeq(Keys(itemLocations'), LAMBDA id :
                        /\ LocationOf(itemLocations', id) = { currentRoomId' }
                        /\ \A n \in DOMAIN content.items :
                             content.items[n].id = id => content.items[n].visible # FALSE)),
                      S(", "))
        /\ \A command \in { IF lastInput' \in StockedInputs
                             THEN ParsedStocked[lastInput'] ELSE parse(<<>>) } :
           \A n \in HiddenIn(itemLocations, currentRoomId) :
           \A item \in { content.items[n] } :
             ( /\ phase = "play"
               /\ Truthy(command.noun)
               /\ toLowerCase(command.noun) = toLowerCase(item.name) ) =>
                 /\ HandlerOf(command) = <<"handleTake">> =>
                      /\ inventory' = Append(inventory, item.id)
                      /\ LocationOf(itemLocations', item.id) = { S("inventory") }
                      /\ narration' = << Line("success", "You pick up the ${item.name}.",
                                              <<item.name>>) >>
                 /\ HandlerOf(command) = <<"handleExamine">> =>
                      /\ World' = World
                      /\ narration' = << Line("message", "${description}",
                                              <<item.description>>) >>
                 /\ HandlerOf(command) = <<"handleUse">> =>
                      /\ World' = World
                      /\ Len(narration') = 1
                      /\ narration'[1].kind = "warning"
                      /\ narration'[1].args = << item.name, toLowerCase(item.name) >>
      ]_vars

\* the badge, which the description of the lounge did not name, has just
\* been picked up there
C39_Witness ==
    /\ lastInput = S("take badge")
    /\ currentRoomId = S("lounge")
    /\ Carried(S("badge"))
    /\ narration = << Line("success", "You pick up the ${item.name}.", << S("Badge") >>) >>

\* the lounge has just been described with the badge lying in it: the
\* description names the card case alone
C39_WitnessListing ==
    /\ lastInput = S("look")
    /\ currentRoomId = S("lounge")
    /\ HiddenIn(itemLocations, S("lounge")) # {}
    /\ \E k \in DOMAIN narration :
         narration[k].kind = "room" /\ narration[k].args[3] = S("Card Case")

\* the badge has just been examined where it lies
C39_WitnessExamined ==
    /\ lastInput = S("examine badge")
    /\ HiddenIn(itemLocations, currentRoomId) # {}
    /\ narration = << Line("message", "${description}", << S("A comm badge.") >>) >>

====
